---- MODULE Spec2Model ----
(***************************************************************************)
(* A model of ma-plan-validator: the MA-PDDL to PDDL converter             *)
(* (convert_mapddl_to_pddl.py) and the multi-agent plan validator          *)
(* (ma_plan_validator.py).                                                 *)
(*                                                                         *)
(* Text is a sequence of lexemes: the characters "(" ")" ";" TAB NL SP     *)
(* each stand alone, every other lexeme is a fragment of an atom (one or   *)
(* more characters that are neither whitespace, parenthesis nor ";").      *)
(* Atoms (tokens) are strings built with \o from adjacent fragments.       *)
(***************************************************************************)
EXTENDS Integers, Sequences, FiniteSets, TLC

VARIABLES
    \* ---- _get_file_as_array (tokenizer) --------------------------------
    text,            \* the content of file_ as opened
    lines,           \* the lines of file_ not yet read by the for loop
    file_as_string,  \* the accumulator of the loop
    atoms,           \* the returned array
    tpc,             \* "idle" | "reading" | "done"
    \* ---- PlanningProblem(domainfile, problemfile) ----------------------
    domainfile,      \* the text of the domain file
    problemfile,     \* the text of the problem file
    file_array,      \* the words the running parse loop has not yet read
    planning_problem,\* the PlanningProblem instance (with the loop's locals)
    ppc,             \* where the construction / write-out stands
    round,           \* 1: built from the given files, 2: from its own output
    first,           \* the instance of round 1, once written out
    new_domainfile,  \* the text write_pddl_domain wrote
    new_problemfile, \* the text write_pddl_problem wrote
    \* ---- get_objects_of_type(of_type) ----------------------------------
    of_type,         \* the argument of the running call
    selected_types,  \* local
    pre_size,        \* local
    selected_objects,\* the returned set
    gpc,             \* "idle" | "while" | "done"
    \* ---- MAPlanValidator._validate -------------------------------------
    fs,              \* the files, by path
    dirs,            \* the directories that exist
    req,             \* per request: its arguments, locals and position
    \* ---- _parse_unground_propositions(array) ---------------------------
    literals,        \* the literals the block was written from
    prop_array,      \* the argument: a precondition, effect or goal block
    prop_list,       \* the returned list, with the call's status
    prpc             \* "idle" | "called" | "returned"

tokVars == <<text, lines, file_as_string, atoms, tpc>>
parseVars ==
    <<domainfile, problemfile, file_array, planning_problem, ppc, round,
      first, new_domainfile, new_problemfile>>

typeVars == <<of_type, selected_types, pre_size, selected_objects, gpc>>

valVars == <<fs, dirs, req>>

propVars == <<literals, prop_array, prop_list, prpc>>

vars == <<tokVars, parseVars, typeVars, valVars, propVars>>

-----------------------------------------------------------------------------
(* Bounds *)

MaxTextLen == 4
MaxReqs == 2
MaxTypeDecls == 2
MaxOcc == 2
MaxLits == 2

-----------------------------------------------------------------------------
(* Characters *)

TAB == "\t"
NL == "\n"
SP == " "
LP == "("
RP == ")"
SEMI == ";"

IsWhite(c) == c \in {SP, TAB, NL}

-----------------------------------------------------------------------------
(* Generic sequence helpers (Python list/str primitives) *)

\* s[i:] with a 0-based start, as Python slices (clamped)
Drop(s, n) == IF n >= Len(s) THEN <<>> ELSE SubSeq(s, n + 1, Len(s))

\* s[:n]
Take(s, n) == IF n >= Len(s) THEN s ELSE SubSeq(s, 1, n)

\* s[a:-1] : from 0-based a up to, not including, the last element
Mid(s, a) == IF Len(s) - 1 <= a THEN <<>> ELSE SubSeq(s, a + 1, Len(s) - 1)

\* str.find: the 1-based index of the first c in s, 0 when absent
Find(s, c) ==
    IF \E i \in DOMAIN s : s[i] = c
    THEN CHOOSE i \in DOMAIN s :
            s[i] = c /\ \A j \in 1..(i - 1) : s[j] /= c
    ELSE 0

\* the concatenation of F(s[1]), F(s[2]), ... (by halves: long texts)
RECURSIVE FlatMap(_, _)
FlatMap(F(_), s) ==
    IF Len(s) = 0 THEN <<>>
    ELSE IF Len(s) = 1 THEN F(s[1])
    ELSE LET h == Len(s) \div 2
         IN  FlatMap(F, SubSeq(s, 1, h)) \o FlatMap(F, SubSeq(s, h + 1, Len(s)))

-----------------------------------------------------------------------------
(* _get_file_as_array: convert_mapddl_to_pddl.py 453-466 *)

\* `for line in file_`: the lines of a text, each with its closing NL
RECURSIVE FileLines(_)
FileLines(t) ==
    IF t = <<>> THEN <<>>
    ELSE LET n == Find(t, NL)
         IN  IF n = 0 THEN <<t>>
             ELSE <<Take(t, n)>> \o FileLines(Drop(t, n))

\* if ";" in line: line = line[: line.find(";")]
StripComment(line) ==
    IF Find(line, SEMI) > 0 THEN Take(line, Find(line, SEMI) - 1) ELSE line

\* .replace("\t", "")
ReplaceTabDeleted(c) == IF c = TAB THEN <<>> ELSE <<c>>
ReplaceTabSpace(c) == IF c = TAB THEN <<SP>> ELSE <<c>>
ReplaceTab(c) == ReplaceTabDeleted(c)

\* .replace("\n", " ")
ReplaceNewline(c) == IF c = NL THEN <<SP>> ELSE <<c>>

\* .replace("(", " ( ").replace(")", " ) ")
PadParen(c) == IF c \in {LP, RP} THEN <<SP, c, SP>> ELSE <<c>>

ReplaceLine(line) ==
    FlatMap(PadParen, FlatMap(ReplaceNewline, FlatMap(ReplaceTab, line)))

\* one iteration of `for line in file_`
LineStep(acc, line) == acc \o ReplaceLine(StripComment(line))

\* str.strip().split(): maximal runs of non-whitespace, in order
RECURSIVE AtomAt(_, _)
AtomAt(s, i) ==
    IF i > Len(s) \/ IsWhite(s[i]) THEN "" ELSE s[i] \o AtomAt(s, i + 1)

AtomStarts(s) ==
    LET IsStart(i) == ~IsWhite(s[i]) /\ (i = 1 \/ IsWhite(s[i - 1]))
    IN  SelectSeq([i \in 1..Len(s) |-> i], IsStart)

Split(s) ==
    LET starts == AtomStarts(s)
    IN  [k \in DOMAIN starts |-> AtomAt(s, starts[k])]

RECURSIVE FoldLines(_, _)
FoldLines(acc, ls) ==
    IF ls = <<>> THEN acc ELSE FoldLines(LineStep(acc, Head(ls)), Tail(ls))

\* the whole function, for callers
GetFileAsArray(t) == Split(FoldLines(<<>>, FileLines(t)))

-----------------------------------------------------------------------------
(* Keyword tables: convert_mapddl_to_pddl.py 6-18 *)

DFILE_KEYWORDS ==
    {"requirements", "types", "predicates", "action", "private",
     "functions", "constants"}
DFILE_REQ_KEYWORDS == {"typing", "strips", "multi-agent", "unfactored-privacy"}
PFILE_KEYWORDS == {"objects", "init", "goal", "private", "metric"}

\* The names that follow a ":" in the atoms the model handles
ColonNames ==
    DFILE_KEYWORDS \cup DFILE_REQ_KEYWORDS \cup PFILE_KEYWORDS
        \cup {"agent", "parameters", "precondition", "effect", "duration",
              "adl", "domain", "bogus"}

\* word.startswith(":")
StartsWithColon(word) == \E k \in ColonNames : word = ":" \o k

\* word[1:] of a word that starts with ":"
AfterColon(word) == CHOOSE k \in ColonNames : word = ":" \o k

-----------------------------------------------------------------------------
(* Python dicts keep insertion order: a dict is a sequence of [k, v] *)

DictKeys(d) == {d[i].k : i \in DOMAIN d}
DictHas(d, key) == \E i \in DOMAIN d : d[i].k = key
DictGet(d, key) == d[CHOOSE i \in DOMAIN d : d[i].k = key].v

\* d.setdefault(key, []).append(e)
SetDefaultAppend(d, key, e) ==
    IF DictHas(d, key)
    THEN [i \in DOMAIN d |->
            IF d[i].k = key THEN [k |-> key, v |-> Append(d[i].v, e)]
            ELSE d[i]]
    ELSE Append(d, [k |-> key, v |-> <<e>>])

SeqToSet(s) == {s[i] : i \in DOMAIN s}

-----------------------------------------------------------------------------
(* class Predicate, class Function: convert_mapddl_to_pddl.py 23-138 *)

Predicate(name, args, is_typed, is_negated) ==
    [name |-> name, args |-> args, arity |-> Len(args),
     is_typed |-> is_typed, is_negated |-> is_negated]

Function(obj_list) == [obj_list |-> obj_list]

GroundFunction(obj_list) == [obj_list |-> obj_list]

Action(name, parameters, precondition, effect) ==
    [name |-> name, parameters |-> parameters,
     precondition |-> precondition, effect |-> effect, duration |-> 1]

-----------------------------------------------------------------------------
(* _parse_name_type_pairs: convert_mapddl_to_pddl.py 468-483 *)
(* The result is [status, val]; status "exit" is sys.exit().             *)

RECURSIVE NameTypePairsFrom(_, _, _)
NameTypePairsFrom(array, types, i) ==
    IF 3 * i >= Len(array) THEN [status |-> "ok", val |-> <<>>]
    ELSE IF array[3 * i + 2] /= "-" THEN [status |-> "exit", val |-> <<>>]
    ELSE IF array[3 * i + 3] \notin types
         THEN [status |-> "exit", val |-> <<>>]
    ELSE LET rest == NameTypePairsFrom(array, types, i + 1)
         IN  IF rest.status /= "ok" THEN rest
             ELSE [status |-> "ok",
                   val |-> <<<<array[3 * i + 1], array[3 * i + 3]>>>>
                               \o rest.val]

ParseNameTypePairs(array, types) ==
    IF Len(array) % 3 /= 0 THEN [status |-> "exit", val |-> <<>>]
    ELSE NameTypePairsFrom(array, types, 0)

-----------------------------------------------------------------------------
(* _parse_unground_proposition(s): convert_mapddl_to_pddl.py 485-507 *)
(* status "crash" is an uncaught IndexError / TypeError.                 *)

ParseUngroundProposition(array0) ==
    IF Len(array0) < 2 THEN [status |-> "crash", val |-> <<>>]
    ELSE LET negative == array0[2] = "not"
             array == IF negative THEN Mid(array0, 2) ELSE array0
         IN  IF Len(array) < 2 THEN [status |-> "crash", val |-> <<>>]
             ELSE [status |-> "ok",
                   val |-> <<Predicate(array[2], Mid(array, 2), FALSE,
                                       negative)>>]

RECURSIVE PropositionsFrom(_, _, _, _)
PropositionsFrom(array, i, opencounter, prop) ==
    IF i > Len(array) THEN [status |-> "ok", val |-> <<>>]
    ELSE LET word == array[i]
             oc == IF word = LP THEN opencounter + 1
                   ELSE IF word = RP THEN opencounter - 1
                   ELSE opencounter
             prop1 == Append(prop, word)
         IN  IF oc = 0
             THEN LET one == ParseUngroundProposition(prop1)
                      rest == PropositionsFrom(array, i + 1, oc, <<>>)
                  IN  IF one.status /= "ok" THEN one
                      ELSE IF rest.status /= "ok" THEN rest
                      ELSE [status |-> "ok", val |-> one.val \o rest.val]
             ELSE PropositionsFrom(array, i + 1, oc, prop1)

ParseUngroundPropositions(array) ==
    IF Take(array, 3) = <<LP, "and", LP>>
    THEN PropositionsFrom(Mid(array, 2), 1, 0, <<>>)
    ELSE PropositionsFrom(array, 1, 0, <<>>)

-----------------------------------------------------------------------------
(* PlanningProblem.__init__: convert_mapddl_to_pddl.py 142-160 *)
(* The instance's fields, with the locals of the running parse loop and    *)
(* status: "ok", "exit" (sys.exit()) or "crash" (an uncaught exception).   *)

NewPlanningProblem ==
    [status |-> "ok",
     domain |-> "", requirements |-> {}, type_list |-> {"object"},
     types |-> <<>>, predicates |-> <<>>, functions |-> <<>>,
     ground_functions |-> <<>>, actions |-> <<>>, agent_types |-> {},
     agents |-> {}, problem |-> "", object_list |-> {}, objects |-> <<>>,
     constants |-> <<>>, init |-> <<>>, goal |-> <<>>, metric |-> FALSE,
     \* locals of parse_domain / parse_problem
     opencounter |-> 0, keyword |-> "", obj_list |-> <<>>,
     is_obj_list |-> TRUE, is_function |-> FALSE, int_opencounter |-> 0]

-----------------------------------------------------------------------------
(* parse_domain, header: convert_mapddl_to_pddl.py 173-185 *)

DomainHeader(st, dfile_array) ==
    IF Take(dfile_array, 4) /= <<LP, "define", LP, "domain">>
    THEN [st EXCEPT !.status = "exit"]
    ELSE IF Len(dfile_array) < 5 THEN [st EXCEPT !.status = "crash"]
    ELSE [st EXCEPT !.domain = dfile_array[5], !.opencounter = 0,
                    !.keyword = "", !.obj_list = <<>>, !.is_obj_list = TRUE]

\* dfile_array[6:-1]
DomainBody(dfile_array) == Mid(dfile_array, 6)

-----------------------------------------------------------------------------
(* parse_domain, one iteration of `for word in dfile_array`: 186-281 *)

\* lines 187-195: the nesting counter and the section register
CountWord(st, word) ==
    IF word = LP THEN [st EXCEPT !.opencounter = @ + 1]
    ELSE IF word = RP THEN [st EXCEPT !.opencounter = @ - 1]
    ELSE IF StartsWithColon(word)
         THEN IF AfterColon(word) \notin DFILE_KEYWORDS THEN st
              ELSE IF st.keyword /= "requirements"
                   THEN [st EXCEPT !.keyword = AfterColon(word)]
              ELSE st
    ELSE st

\* lines 201-204: every buffered name becomes a subtype of "object"
RECURSIVE TopLevelTypes(_, _)
TopLevelTypes(st, elements) ==
    IF elements = <<>> THEN st
    ELSE TopLevelTypes(
            [st EXCEPT !.types = SetDefaultAppend(@, "object", Head(elements)),
                       !.type_list = @ \cup {"object", Head(elements)}],
            Tail(elements))

\* lines 196-206: a section closes when the nesting returns to zero
CloseSection(st) ==
    IF st.opencounter /= 0 THEN st
    ELSE LET a == IF st.keyword = "action"
                  THEN [st EXCEPT !.actions = Append(@, st.obj_list),
                                  !.obj_list = <<>>]
                  ELSE st
             t == IF a.keyword = "types"
                  THEN [TopLevelTypes(a, a.obj_list) EXCEPT !.obj_list = <<>>]
                  ELSE a
         IN  [t EXCEPT !.keyword = ""]

\* lines 208-216
RequirementWord(st, word) ==
    IF word = ":requirements" THEN st
    ELSE IF ~StartsWithColon(word) THEN [st EXCEPT !.status = "exit"]
    ELSE IF AfterColon(word) \notin DFILE_REQ_KEYWORDS THEN st
    ELSE [st EXCEPT !.requirements = @ \cup {AfterColon(word)}]

\* lines 228-234
RECURSIVE BindSubtypes(_, _, _)
BindSubtypes(st, elements, word) ==
    IF elements = <<>> THEN st
    ELSE LET a == IF word \notin st.type_list
                  THEN [st EXCEPT !.types = SetDefaultAppend(@, "object", word),
                                  !.type_list = @ \cup {word}]
                  ELSE st
             b == [a EXCEPT !.types = SetDefaultAppend(@, word, Head(elements)),
                            !.type_list = @ \cup {Head(elements), word}]
         IN  BindSubtypes(b, Tail(elements), word)

\* lines 220-236
TypesWord(st, word) ==
    IF st.is_obj_list
    THEN IF word = "-" THEN [st EXCEPT !.is_obj_list = FALSE]
         ELSE [st EXCEPT !.obj_list = Append(@, word)]
    ELSE [BindSubtypes(st, st.obj_list, word)
            EXCEPT !.is_obj_list = TRUE, !.obj_list = <<>>]

\* lines 245-251
RECURSIVE RecordConstants(_, _, _)
RecordConstants(st, elements, word) ==
    IF elements = <<>> THEN st
    ELSE IF word \in st.type_list
         THEN RecordConstants(
                 [st EXCEPT !.constants =
                                SetDefaultAppend(@, word, Head(elements))],
                 Tail(elements), word)
         ELSE [st EXCEPT !.status = "exit"]

\* lines 237-253
ConstantsWord(st, word) ==
    IF st.is_obj_list
    THEN IF word = "-" THEN [st EXCEPT !.is_obj_list = FALSE]
         ELSE [st EXCEPT !.obj_list = Append(@, word)]
    ELSE LET r == RecordConstants(st, st.obj_list, word)
         IN  IF r.status /= "ok" THEN r
             ELSE [r EXCEPT !.is_obj_list = TRUE, !.obj_list = <<>>]

\* lines 254-272
PredicatesWord(st, word) ==
    IF word = RP
    THEN LET a == IF st.keyword = "private"
                  THEN [st EXCEPT !.obj_list = Drop(@, 3),
                                  !.keyword = "predicates"]
                  ELSE st
         IN  IF Len(a.obj_list) = 0 THEN a
             ELSE LET pred_list ==
                          ParseNameTypePairs(Tail(a.obj_list), a.type_list)
                  IN  IF pred_list.status /= "ok"
                      THEN [a EXCEPT !.status = pred_list.status]
                      ELSE [a EXCEPT
                              !.predicates =
                                  Append(@, Predicate(Head(a.obj_list),
                                                      pred_list.val,
                                                      TRUE, FALSE)),
                              !.obj_list = <<>>]
    ELSE IF word /= LP THEN [st EXCEPT !.obj_list = Append(@, word)]
    ELSE st

\* lines 273-281
FunctionsWord(st, word) ==
    IF word = RP
    THEN IF Len(st.obj_list) = 0 THEN [st EXCEPT !.status = "crash"]
         ELSE LET ol == IF st.obj_list[1] = "-" THEN Drop(st.obj_list, 2)
                        ELSE st.obj_list
              IN  [st EXCEPT !.functions = Append(@, Function(ol)),
                             !.obj_list = <<>>]
    ELSE IF word /= LP THEN [st EXCEPT !.obj_list = Append(@, word)]
    ELSE st

\* lines 208-281: the branch the section register selects
SectionWord(st, word) ==
    IF st.keyword = "requirements" THEN RequirementWord(st, word)
    ELSE IF st.keyword = "action"
         THEN [st EXCEPT !.obj_list = Append(@, word)]
    ELSE IF ~StartsWithColon(word)
         THEN IF st.keyword = "types" THEN TypesWord(st, word)
              ELSE IF st.keyword = "constants" THEN ConstantsWord(st, word)
              ELSE IF st.keyword \in {"predicates", "private"}
                   THEN PredicatesWord(st, word)
              ELSE IF st.keyword = "functions" THEN FunctionsWord(st, word)
              ELSE st
    ELSE st

DomainWord(st, word) == SectionWord(CloseSection(CountWord(st, word)), word)

-----------------------------------------------------------------------------
(* parse_domain, "Work on the actions": convert_mapddl_to_pddl.py 283-308 *)

\* lines 291-296: the words filed under one keyword of the action body;
\* act.get(key) is None exactly when no word was filed under key
RECURSIVE BucketFrom(_, _, _, _)
BucketFrom(action, i, keyword, key) ==
    IF i > Len(action) THEN <<>>
    ELSE IF StartsWithColon(action[i])
         THEN BucketFrom(action, i + 1, AfterColon(action[i]), key)
    ELSE (IF keyword = key THEN <<action[i]>> ELSE <<>>)
            \o BucketFrom(action, i + 1, keyword, key)

Bucket(action, key) == BucketFrom(action, 1, "", key)

\* lines 286-305 for one buffered action; [status, val, agent_type]
ParseActionWithAgent(raw, type_list) ==
    LET fail(s) == [status |-> s, val |-> <<>>, agent_type |-> ""]
    IN
    IF Len(raw) = 0 THEN fail("crash")
    ELSE
    LET action0 == IF raw[1] = "-" THEN Drop(raw, 2) ELSE raw
    IN
    IF Len(action0) < 2 THEN fail("crash")
    ELSE
    LET act_name == action0[2]
        action == Drop(action0, 2)
        agentB == Bucket(action, "agent")
        paramB == Bucket(action, "parameters")
        preB == Bucket(action, "precondition")
        effB == Bucket(action, "effect")
    IN
    IF Len(agentB) < 3 THEN fail("crash")
    ELSE
    LET agent == ParseNameTypePairs(agentB, type_list)
    IN
    IF agent.status /= "ok" THEN fail(agent.status)
    ELSE IF paramB = <<>> THEN fail("crash")
    ELSE
    LET params == ParseNameTypePairs(Mid(paramB, 1), type_list)
    IN
    IF params.status /= "ok" THEN fail(params.status)
    ELSE IF preB = <<>> THEN fail("crash")
    ELSE
    LET pre_list == ParseUngroundPropositions(preB)
    IN
    IF pre_list.status /= "ok" THEN fail(pre_list.status)
    ELSE IF effB = <<>> THEN fail("crash")
    ELSE
    LET eff_list == ParseUngroundPropositions(effB)
    IN
    IF eff_list.status /= "ok" THEN fail(eff_list.status)
    ELSE [status |-> "ok",
          val |-> <<Action(act_name,
                           Predicate("", agent.val \o params.val, TRUE, FALSE),
                           pre_list.val, eff_list.val)>>,
          agent_type |-> agentB[3]]

ParseAction(raw, type_list) == ParseActionWithAgent(raw, type_list)

\* lines 284-308
RECURSIVE WorkOnActions(_, _, _)
WorkOnActions(st, raws, new_actions) ==
    IF raws = <<>> THEN [st EXCEPT !.actions = new_actions]
    ELSE LET a == ParseAction(Head(raws), st.type_list)
         IN  IF a.status /= "ok" THEN [st EXCEPT !.status = a.status]
             ELSE WorkOnActions(
                     [st EXCEPT !.agent_types = @ \cup {a.agent_type}],
                     Tail(raws), new_actions \o a.val)

DomainActions(st) == WorkOnActions(st, st.actions, <<>>)

\* parse_domain as a whole, on the array read from the file
RECURSIVE DomainWords(_, _)
DomainWords(st, words) ==
    IF words = <<>> \/ st.status /= "ok" THEN st
    ELSE DomainWords(DomainWord(st, Head(words)), Tail(words))

ParseDomain(st, dfile_array) ==
    LET h == DomainHeader(st, dfile_array)
    IN  IF h.status /= "ok" THEN h
        ELSE LET w == DomainWords(h, DomainBody(dfile_array))
             IN  IF w.status /= "ok" THEN w ELSE DomainActions(w)

-----------------------------------------------------------------------------
(* parse_problem, header: convert_mapddl_to_pddl.py 313-338 *)

ProblemHeader(st, pfile_array) ==
    IF Take(pfile_array, 4) /= <<LP, "define", LP, "problem">>
    THEN [st EXCEPT !.status = "exit"]
    ELSE IF Len(pfile_array) < 5 THEN [st EXCEPT !.status = "crash"]
    ELSE IF SubSeq(pfile_array, 6, IF Len(pfile_array) < 8
                                   THEN Len(pfile_array) ELSE 8)
                /= <<RP, LP, ":domain">>
         THEN [st EXCEPT !.status = "exit", !.problem = pfile_array[5]]
    ELSE IF Len(pfile_array) < 10
         THEN [st EXCEPT !.status = "crash", !.problem = pfile_array[5]]
    ELSE IF pfile_array[10] /= RP
         THEN [st EXCEPT !.status = "exit", !.problem = pfile_array[5]]
    ELSE [st EXCEPT !.problem = pfile_array[5], !.opencounter = 0,
                    !.keyword = "", !.is_obj_list = TRUE,
                    !.is_function = FALSE, !.obj_list = <<>>,
                    !.int_opencounter = 0]

\* pfile_array[10:-1]
ProblemBody(pfile_array) == Mid(pfile_array, 10)

-----------------------------------------------------------------------------
(* parse_problem, one iteration of `for word in pfile_array`: 339-406 *)

\* lines 340-353
ProblemCountWord(st, word) ==
    LET a == IF word = LP THEN [st EXCEPT !.opencounter = @ + 1]
             ELSE IF word = RP
                  THEN [st EXCEPT !.opencounter = @ - 1,
                                  !.obj_list = IF st.keyword = "objects"
                                               THEN <<>> ELSE @]
             ELSE IF StartsWithColon(word)
                  THEN IF AfterColon(word) \notin PFILE_KEYWORDS THEN st
                       ELSE [st EXCEPT !.keyword = AfterColon(word)]
             ELSE st
    IN  IF a.opencounter = 0 THEN [a EXCEPT !.keyword = ""] ELSE a

\* lines 370-377
RECURSIVE RecordObjects(_, _, _)
RecordObjects(st, elements, word) ==
    IF elements = <<>> THEN st
    ELSE IF word \in st.type_list
         THEN RecordObjects(
                 [st EXCEPT !.objects =
                                SetDefaultAppend(@, word, Head(elements)),
                            !.object_list = @ \cup {Head(elements)}],
                 Tail(elements), word)
         ELSE [st EXCEPT !.status = "exit"]

\* lines 356-379
ObjectsWord(st, word) ==
    IF st.keyword = "private"
    THEN [st EXCEPT !.obj_list = <<>>, !.keyword = "objects"]
    ELSE IF st.is_obj_list
         THEN IF word = "-" THEN [st EXCEPT !.is_obj_list = FALSE]
              ELSE [st EXCEPT !.obj_list = Append(@, word)]
    ELSE LET r == RecordObjects(st, st.obj_list, word)
         IN  IF r.status /= "ok" THEN r
             ELSE [r EXCEPT !.is_obj_list = TRUE, !.obj_list = <<>>]

\* lines 380-394
InitWord(st, word) ==
    IF word = RP
    THEN IF Len(st.obj_list) = 0 THEN [st EXCEPT !.status = "crash"]
         ELSE IF st.obj_list[1] = "=" /\ ~st.is_function
              THEN [st EXCEPT !.is_function = TRUE]
         ELSE IF st.is_function
              THEN [st EXCEPT !.ground_functions =
                                  Append(@, Function(st.obj_list)),
                              !.is_function = FALSE, !.obj_list = <<>>]
         ELSE [st EXCEPT !.init =
                             Append(@, Predicate(Head(st.obj_list),
                                                 Tail(st.obj_list),
                                                 FALSE, FALSE)),
                         !.obj_list = <<>>]
    ELSE IF word /= LP THEN [st EXCEPT !.obj_list = Append(@, word)]
    ELSE st

\* lines 395-403
GoalWord(st, word) ==
    LET a == [st EXCEPT !.int_opencounter =
                            IF word = LP THEN @ + 1
                            ELSE IF word = RP THEN @ - 1 ELSE @,
                        !.obj_list = Append(@, word)]
    IN  IF a.int_opencounter /= 0 THEN a
        ELSE LET g == ParseUngroundPropositions(a.obj_list)
             IN  IF g.status /= "ok" THEN [a EXCEPT !.status = g.status]
                 ELSE [a EXCEPT !.goal = g.val, !.obj_list = <<>>]

\* lines 355-406
ProblemSectionWord(st, word) ==
    IF StartsWithColon(word) THEN st
    ELSE IF st.keyword \in {"objects", "private"} THEN ObjectsWord(st, word)
    ELSE IF st.keyword = "init" THEN InitWord(st, word)
    ELSE IF st.keyword = "goal" THEN GoalWord(st, word)
    ELSE IF st.keyword = "metric"
         THEN [st EXCEPT !.metric = TRUE, !.obj_list = <<>>]
    ELSE st

ProblemWord(st, word) == ProblemSectionWord(ProblemCountWord(st, word), word)

RECURSIVE ProblemWords(_, _)
ProblemWords(st, words) ==
    IF words = <<>> \/ st.status /= "ok" THEN st
    ELSE ProblemWords(ProblemWord(st, Head(words)), Tail(words))

ParseProblem(st, pfile_array) ==
    LET h == ProblemHeader(st, pfile_array)
    IN  IF h.status /= "ok" THEN h
        ELSE ProblemWords(h, ProblemBody(pfile_array))

-----------------------------------------------------------------------------
(* get_objects_of_type: convert_mapddl_to_pddl.py 416-430 *)

\* (a pass that replaces the selection instead of extending it)
TypePassReplacing(types, selected) ==
    UNION {SeqToSet(DictGet(types, t)) :
             t \in {u \in selected : DictHas(types, u)}}

\* lines 421-423: one pass of the while loop over the selected types
TypePass(types, selected) ==
    selected \cup
        UNION {SeqToSet(DictGet(types, t)) :
                 t \in {u \in selected : DictHas(types, u)}}

\* lines 417-423
RECURSIVE SelectTypes(_, _, _)
SelectTypes(types, selected, size) ==
    IF Cardinality(selected) > size
    THEN SelectTypes(types, TypePass(types, selected),
                     Cardinality(selected))
    ELSE selected

\* lines 424-430
ObjectsIn(st, selected) ==
    UNION {SeqToSet(DictGet(st.objects, t)) :
             t \in {u \in selected : DictHas(st.objects, u)}}
    \cup
    UNION {SeqToSet(DictGet(st.constants, t)) :
             t \in {u \in selected : DictHas(st.constants, u)}}

GetObjectsOfType(st, t0) ==
    ObjectsIn(st, SelectTypes(st.types, {t0}, 0))

\* get_type_of_object, lines 408-414; "" stands for None
GetTypeOfObject(st, obj) ==
    LET inObj == {i \in DOMAIN st.objects : obj \in SeqToSet(st.objects[i].v)}
        inCon == {i \in DOMAIN st.constants :
                    obj \in SeqToSet(st.constants[i].v)}
        min(S) == CHOOSE i \in S : \A j \in S : i <= j
    IN  IF inObj /= {} THEN st.objects[min(inObj)].k
        ELSE IF inCon /= {} THEN st.constants[min(inCon)].k
        ELSE ""

-----------------------------------------------------------------------------
(* PlanningProblem.__init__, after the two parses: 165-168 *)

MultiAgentFlags == {"multi-agent", "unfactored-privacy"}

AgentsOf(st) == UNION {GetObjectsOfType(st, t) : t \in st.agent_types}

FinishInitKeepingFlags(st) == [st EXCEPT !.agents = @ \cup AgentsOf(st)]

FinishInit(st) ==
    [st EXCEPT !.agents = @ \cup AgentsOf(st),
               !.requirements = @ \ MultiAgentFlags]

-----------------------------------------------------------------------------
(* pddl_rep: convert_mapddl_to_pddl.py 43-61, 79-101, 111-118, 128-135 *)

\* rep[:-1]
ChopLast(rep) == Take(rep, Len(rep) - 1)

TypedArg(argument) == <<argument[1], SP, "-", SP, argument[2], SP>>
UntypedArg(argument) == <<argument, SP>>

PredicateRep(p) ==
    LET open == (IF p.is_negated THEN <<LP, "not", SP>> ELSE <<>>)
                  \o (IF p.name /= "" THEN <<LP, p.name, SP>> ELSE <<LP>>)
        args == IF p.is_typed THEN FlatMap(TypedArg, p.args)
                ELSE FlatMap(UntypedArg, p.args)
    IN  ChopLast(open \o args) \o <<RP>>
            \o (IF p.is_negated THEN <<RP>> ELSE <<>>)

FunctionRep(f) ==
    ChopLast(<<LP>> \o FlatMap(UntypedArg, f.obj_list))
        \o <<RP, SP, "-", SP, "number">>

\* only called on a non-empty obj_list
GroundFunctionRep(f) ==
    ChopLast(<<LP, f.obj_list[1], SP, LP>>
                \o FlatMap(UntypedArg, Mid(f.obj_list, 1)))
        \o <<RP, SP, f.obj_list[Len(f.obj_list)], RP, SP>>

LiteralLine(p) == <<TAB, TAB>> \o PredicateRep(p) \o <<NL>>

ActionRep(a) ==
    <<LP, ":action", SP, a.name, NL>>
    \o <<TAB, ":parameters", SP>> \o PredicateRep(a.parameters) \o <<NL>>
    \o (IF Len(a.precondition) > 1
        THEN <<TAB, ":precondition", SP, LP, "and", NL>>
        ELSE <<TAB, ":precondition", SP, NL>>)
    \o FlatMap(LiteralLine, a.precondition)
    \o (IF Len(a.precondition) > 1 THEN <<TAB, RP, NL>> ELSE <<>>)
    \o (IF Len(a.effect) > 1
        THEN <<TAB, ":effect", SP, LP, "and", NL>>
        ELSE <<TAB, ":effect", SP, NL>>)
    \o FlatMap(LiteralLine, a.effect)
    \o (IF Len(a.effect) > 1 THEN <<TAB, RP, NL>> ELSE <<>>)
    \o <<RP, NL>>

-----------------------------------------------------------------------------
(* write_pddl_domain: convert_mapddl_to_pddl.py 509-552 *)
(* requirements is a Python set: req_order is the order its iteration     *)
(* happens to take.                                                       *)

RequirementItem(r) == <<SP, ":" \o r>>
TypeLine(e) == <<TAB>> \o FlatMap(UntypedArg, e.v) \o <<"-", SP, e.k, NL>>
ConstantLine(e) ==
    <<TAB>> \o FlatMap(UntypedArg, e.v) \o <<SP, "-", SP, e.k, NL>>
PredicateLine(p) == <<TAB>> \o PredicateRep(p) \o <<NL>>
FunctionLine(f) == <<TAB>> \o FunctionRep(f) \o <<NL>>
ActionBlock(a) == <<NL>> \o ActionRep(a) \o <<NL>>

WrittenRequirements(st, req_order) == FlatMap(RequirementItem, req_order)

WritePddlDomain(st, req_order) ==
    <<LP, "define", SP, LP, "domain", SP, st.domain, RP, NL>>
    \o <<TAB, LP, ":requirements">>
    \o WrittenRequirements(st, req_order)
    \o <<RP, NL>>
    \o <<LP, ":types", NL>> \o FlatMap(TypeLine, st.types) \o <<RP, NL>>
    \o (IF Len(st.constants) > 0
        THEN <<LP, ":constants", NL>> \o FlatMap(ConstantLine, st.constants)
                \o <<RP, NL>>
        ELSE <<>>)
    \o <<LP, ":predicates", NL>> \o FlatMap(PredicateLine, st.predicates)
    \o <<RP, NL>>
    \o (IF Len(st.functions) > 0
        THEN <<LP, ":functions", NL>> \o FlatMap(FunctionLine, st.functions)
                \o <<RP, NL>>
        ELSE <<>>)
    \o FlatMap(ActionBlock, st.actions)
    \o <<RP>>

-----------------------------------------------------------------------------
(* write_pddl_problem: convert_mapddl_to_pddl.py 554-577 *)
(* object_list is a Python set: obj_order is its iteration order.         *)
(* The write raises (TypeError) when an object has no type.               *)

RECURSIVE ObjectLines(_, _)
ObjectLines(st, obj_order) ==
    IF obj_order = <<>> THEN <<>>
    ELSE <<TAB, Head(obj_order), SP, "-", SP,
           GetTypeOfObject(st, Head(obj_order)), NL>>
            \o ObjectLines(st, Tail(obj_order))

InitLine(p) == <<TAB>> \o PredicateRep(p) \o <<NL>>
GroundFunctionLine(f) == <<TAB>> \o GroundFunctionRep(f) \o <<NL>>

WriteProblemRaises(st) ==
    \E o \in st.object_list : GetTypeOfObject(st, o) = ""

WritePddlProblem(st, obj_order) ==
    <<LP, "define", SP, LP, "problem", SP, st.problem, RP, SP>>
    \o <<LP, ":domain", SP, st.domain, RP, NL>>
    \o <<LP, ":objects", NL>> \o ObjectLines(st, obj_order) \o <<RP, NL>>
    \o <<LP, ":init", NL>> \o FlatMap(InitLine, st.init)
    \o FlatMap(GroundFunctionLine, st.ground_functions)
    \o <<RP, NL>>
    \o <<LP, ":goal", NL, TAB, LP, "and", NL>>
    \o FlatMap(LiteralLine, st.goal)
    \o <<TAB, RP, NL, RP, NL>>
    \o (IF st.metric
        THEN <<LP, ":metric", SP, "minimize", SP, LP, "total-cost", RP, RP, NL>>
        ELSE <<>>)
    \o <<RP>>

\* the orders in which a Python set may be iterated
Orders(S) ==
    {f \in [1..Cardinality(S) -> S] : \A i, j \in DOMAIN f : i /= j => f[i] /= f[j]}

-----------------------------------------------------------------------------
(* Parts of the machines that are not running *)

TokIdle ==
    /\ text = <<>>
    /\ lines = <<>>
    /\ file_as_string = <<>>
    /\ atoms = <<>>
    /\ tpc = "idle"

TypeIdle ==
    /\ of_type = ""
    /\ selected_types = {}
    /\ pre_size = 0
    /\ selected_objects = {}
    /\ gpc = "idle"

ParseIdle ==
    /\ domainfile = <<>>
    /\ problemfile = <<>>
    /\ file_array = <<>>
    /\ planning_problem = NewPlanningProblem
    /\ ppc = "idle"
    /\ round = 0
    /\ first = NewPlanningProblem
    /\ new_domainfile = <<>>
    /\ new_problemfile = <<>>

-----------------------------------------------------------------------------
(* MAPlanValidator._validate: requests, files and directories *)

Requests == {1, 2}

\* the artifact paths of a problem called name
DomainDir(name) == "ma_pddl_unfactored_" \o name
DomainFile(name) == name \o "_domain.pddl"
ProblemFile(name) == name \o "_problem.pddl"
CentralizedDir == "centralized"
Join(dir, file) == <<dir, file>>
DomainPath(name) == Join(DomainDir(name), DomainFile(name))
ProblemPath(name) == Join(DomainDir(name), ProblemFile(name))
NewDomainPath(name) == Join(CentralizedDir, DomainFile(name))
NewProblemPath(name) == Join(CentralizedDir, ProblemFile(name))

ProblemNames == {"p", "q"}

Paths ==
    UNION {{DomainPath(n), ProblemPath(n), NewDomainPath(n), NewProblemPath(n)} :
              n \in ProblemNames}

\* a path holds no file, or a text; from names the requests whose generated
\* text the content was computed from
NoFile == [exists |-> FALSE, text |-> <<>>, from |-> {}]
File(content, origin) == [exists |-> TRUE, text |-> content, from |-> origin]

\* the model PDDLReader.parse_problem returns: actions and objects by name
NoPddlProblem == [actions |-> <<>>, objects |-> {}]

\* a plan is read in two places: its kind on entry, its occurrences and
\* their ordering constraints when the validation loop asks for its
\* linearizations; until then a request holds its plan's kind and size only
NoPlan == [actions |-> <<>>, before |-> {}]

\* a request that was never made
NoRequest ==
    [pc |-> "absent", name |-> "", shape |-> "", plan_kind |-> "",
     plan_size |-> 0,
     plan |-> NoPlan, valid |-> {},
     planning_problem |-> NewPlanningProblem, read_from |-> {},
     pddl_problem |-> NoPddlProblem, pddl_from |-> {},
     is_valid_plan |-> TRUE, converted |-> <<>>, new_seq_plan |-> <<>>,
     submitted |-> <<>>, result |-> "none", raised |-> "none"]

PropIdle ==
    /\ literals = <<>>
    /\ prop_array = <<>>
    /\ prop_list = [status |-> "ok", val |-> <<>>]
    /\ prpc = "idle"

ValIdle ==
    /\ fs = [path \in Paths |-> NoFile]
    /\ dirs = {}
    /\ req = [r \in Requests |-> NoRequest]

-----------------------------------------------------------------------------
(* The tokenizer as a machine: one step per line read, one for the split *)

TokChars == {"a", "b", SEMI, TAB, NL, LP, RP, SP}

RECURSIVE SeqsUpTo(_, _)
SeqsUpTo(S, n) ==
    IF n = 0 THEN {<<>>}
    ELSE LET shorter == SeqsUpTo(S, n - 1)
         IN  shorter \cup {Append(s, c) : s \in shorter, c \in S}

TokInit ==
    /\ text \in SeqsUpTo(TokChars, MaxTextLen)
    /\ lines = FileLines(text)
    /\ file_as_string = <<>>
    /\ atoms = <<>>
    /\ tpc = "reading"
    /\ ParseIdle
    /\ TypeIdle
    /\ ValIdle
    /\ PropIdle

ReadLine ==
    /\ tpc = "reading"
    /\ lines /= <<>>
    /\ file_as_string' = LineStep(file_as_string, Head(lines))
    /\ lines' = Tail(lines)
    /\ UNCHANGED <<text, atoms, tpc>>
    /\ UNCHANGED <<parseVars, typeVars, valVars, propVars>>

SplitFile ==
    /\ tpc = "reading"
    /\ lines = <<>>
    /\ atoms' = Split(file_as_string)
    /\ tpc' = "done"
    /\ UNCHANGED <<text, lines, file_as_string>>
    /\ UNCHANGED <<parseVars, typeVars, valVars, propVars>>

TokNext == ReadLine \/ SplitFile

SpecTok == TokInit /\ [][TokNext]_vars

-----------------------------------------------------------------------------
(* Input files for the parser machine *)

\* a text whose atoms are ws, one space after each
SpacedWord(w) == <<w, SP>>
Words(ws) == FlatMap(SpacedWord, ws)

ColonWord(k) == <<":" \o k>>

ReqFlags == {"typing", "strips", "multi-agent", "unfactored-privacy", "adl"}

RequirementsSection(flags) ==
    <<LP, ":requirements">> \o FlatMap(ColonWord, flags) \o <<RP>>

TypesSection == <<LP, ":types", "robot", "loc", "-", "object", RP>>

ConstantsSection == <<LP, ":constants", "base", "-", "loc", RP>>

PredicatesSection ==
    <<LP, ":predicates", LP, "at", "?r", "-", "robot", "?l", "-", "loc", RP,
      RP>>

FunctionsSection ==
    <<LP, ":functions", LP, "total-cost", RP, "-", "number", RP>>

ActionSection ==
    <<LP, ":action", "move", ":agent", "?r", "-", "robot",
      ":parameters", LP, "?from", "-", "loc", "?to", "-", "loc", RP,
      ":precondition", LP, "at", "?r", "?from", RP,
      ":effect", LP, "and", LP, "not", LP, "at", "?r", "?from", RP, RP,
                 LP, "at", "?r", "?to", RP, RP,
      RP>>

MaDomain(flags, hasConstants, hasFunctions, hasAction) ==
    Words(<<LP, "define", LP, "domain", "d", RP>>
          \o RequirementsSection(flags)
          \o TypesSection
          \o (IF hasConstants THEN ConstantsSection ELSE <<>>)
          \o PredicatesSection
          \o (IF hasFunctions THEN FunctionsSection ELSE <<>>)
          \o (IF hasAction THEN ActionSection ELSE <<>>)
          \o <<RP>>)

MaProblem(hasMetric) ==
    Words(<<LP, "define", LP, "problem", "p", RP, LP, ":domain", "d", RP,
            LP, ":objects", "r1", "-", "robot", "l1", "l2", "-", "loc", RP,
            LP, ":init", LP, "at", "r1", "l1", RP>>
          \o (IF hasMetric THEN <<LP, "=", LP, "total-cost", RP, "0", RP>>
              ELSE <<>>)
          \o <<RP, LP, ":goal", LP, "and", LP, "at", "r1", "l2", RP, RP, RP>>
          \o (IF hasMetric
              THEN <<LP, ":metric", "minimize", LP, "total-cost", RP, RP>>
              ELSE <<>>)
          \o <<RP>>)

DefaultFlags == <<"typing", "multi-agent", "unfactored-privacy">>

\* domains that differ in the sections they hold
ShapeInputs ==
    {<<MaDomain(DefaultFlags, c, f, a), MaProblem(f)>> :
        c \in BOOLEAN, f \in BOOLEAN, a \in BOOLEAN}

\* domains that differ in their requirement flags
RequirementInputs ==
    {<<MaDomain(flags, FALSE, FALSE, FALSE), MaProblem(FALSE)>> :
        flags \in SeqsUpTo(ReqFlags, MaxReqs)}

\* ---- problems with a defect, or with private objects ----

DomainHeaderWords == <<LP, "define", LP, "domain", "d", RP>>

SmallDomain == MaDomain(DefaultFlags, FALSE, FALSE, FALSE)

ProblemHeaderWords(name, domain) ==
    <<LP, "define", LP, "problem", name, RP, LP, ":domain", domain, RP>>

\* the header as it should be, with another domain name than the domain
\* file's, and with one of its ten words wrong or missing
ProblemHeaders ==
    {ProblemHeaderWords("p", "d"),
     ProblemHeaderWords("p", "other"),
     <<LP, "define", LP, "domain", "p", RP, LP, ":domain", "d", RP>>,
     <<LP, "define", LP, "problem", "p", RP>>,
     <<LP, "define", LP, "problem", "p", RP, LP, ":domain", "d">>,
     <<LP, "define", LP, "problem", "p", LP, ":domain", "d", RP>>}

PublicObjects == <<LP, ":objects", "r1", "-", "robot", "l1", "l2", "-", "loc", RP>>

\* object sections: plain, with an unknown type, and with a :private block
\* after, between and before the public objects
ObjectSections ==
    {PublicObjects,
     <<LP, ":objects", "r1", "-", "ghost", "l1", "l2", "-", "loc", RP>>,
     <<LP, ":objects", "r1", "-", "robot",
       LP, ":private", "l1", "l2", "-", "loc", RP, RP>>,
     <<LP, ":objects", "r1", "-", "robot",
       LP, ":private", "l1", "-", "loc", RP, "l2", "-", "loc", RP>>,
     <<LP, ":objects", LP, ":private", "l1", "l2", "-", "loc", RP,
       "r1", "-", "robot", RP>>,
     <<LP, ":objects", "r1", "-", "robot", "l1", "l2", "-", "loc",
       LP, ":private", "l3", "-", "ghost", RP, RP>>}

\* nothing, or a section with a keyword the problem file does not know
ExtraSections == {<<>>, <<LP, ":bogus", "x", RP>>}

InitAndGoal ==
    <<LP, ":init", LP, "at", "r1", "l1", RP, RP,
      LP, ":goal", LP, "and", LP, "at", "r1", "l2", RP, RP, RP>>

ProblemOf(header, objects, extra) ==
    Words(header \o objects \o extra \o InitAndGoal \o <<RP>>)

ProblemInputs ==
    {<<SmallDomain, ProblemOf(h, PublicObjects, <<>>)>> : h \in ProblemHeaders}
        \cup {<<SmallDomain, ProblemOf(ProblemHeaderWords("p", "d"), o, e)>> :
                 o \in ObjectSections, e \in ExtraSections}

\* ---- domains with a defect in the header, or with their sections in
\* ---- another order

DomainHeaders ==
    {DomainHeaderWords,
     <<LP, "define", LP, "problem", "d", RP>>,
     <<LP, "define", LP, "domain", "d">>,
     <<LP, "define", LP, "domain", "d", "x">>,
     <<LP, "define", "domain", "d", RP>>}

SectionNamed(n) ==
    IF n = "types" THEN TypesSection
    ELSE IF n = "constants" THEN ConstantsSection
    ELSE IF n = "predicates" THEN PredicatesSection
    ELSE IF n = "functions" THEN FunctionsSection
    ELSE ActionSection

\* the types first and the other sections in any order, or the functions
\* before the types
SectionOrders ==
    {<<"types">> \o o :
        o \in Orders({"constants", "predicates", "functions", "action"})}
        \cup {<<"functions", "types", "constants", "predicates", "action">>}

DomainOf(header, order) ==
    Words(header \o RequirementsSection(DefaultFlags)
          \o FlatMap(SectionNamed, order) \o <<RP>>)

DomainInputs ==
    {<<DomainOf(h, <<"types", "predicates">>), MaProblem(FALSE)>> :
        h \in DomainHeaders}
        \cup {<<DomainOf(DomainHeaderWords, o), MaProblem(TRUE)>> :
                 o \in SectionOrders}

ParseInputs ==
    ShapeInputs \cup RequirementInputs \cup ProblemInputs \cup DomainInputs

-----------------------------------------------------------------------------
(* What MAPDDLWriter(problem, unfactored=True) writes for a request's problem *)

\* one action of an agent, named <action>_<agent>, the agent its :agent
MoveAction(agent, type) ==
    <<LP, ":action", "move_" \o agent, ":agent", "?" \o agent, "-", type,
      ":parameters", LP, "?to", "-", "loc", RP,
      ":precondition", LP, "free", "?to", RP,
      ":effect", LP, "not", LP, "free", "?to", RP, RP,
      RP>>

\* Agent a1 moves; a2 has no action; a3 is declared with another type than
\* its action's agent parameter.  In the shape "undeclared" a constant has a
\* type the domain does not declare.
WriterDomain(name, shape) ==
    Words(<<LP, "define", LP, "domain", name \o "_domain", RP>>
          \o RequirementsSection(DefaultFlags)
          \o <<LP, ":types", "a1_type", "a3_type", "loc", "-", "object", RP>>
          \o <<LP, ":constants", "a1", "-", "a1_type", "a2", "a3", "-",
               (IF shape = "undeclared" THEN "ghost" ELSE "loc"), RP>>
          \o <<LP, ":predicates", LP, "free", "?l", "-", "loc", RP, RP>>
          \o MoveAction("a1", "a1_type")
          \o MoveAction("a3", "a3_type")
          \o <<RP>>)

WriterProblem(name, shape) ==
    Words(<<LP, "define", LP, "problem", name, RP,
            LP, ":domain", name \o "_domain", RP,
            LP, ":objects", "l1", "-", "loc", RP,
            LP, ":init", LP, "free", "l1", RP, RP,
            LP, ":goal", LP, "and", LP, "free", "l1", RP, RP, RP, RP>>)

-----------------------------------------------------------------------------
(* PDDLReader.parse_problem, as far as the validator uses its result: the  *)
(* actions in file order with their typed parameters, and the constants    *)
(* and objects with their types.                                           *)

PddlTokens(t) == SelectSeq(t, LAMBDA c : ~IsWhite(c))

VariableNames == {"a1", "a2", "a3", "to", "l"}

\* "?x" names the parameter x
VariableName(word) ==
    IF \E n \in VariableNames : word = "?" \o n
    THEN CHOOSE n \in VariableNames : word = "?" \o n
    ELSE word

\* the words that follow key, up to the next closing parenthesis
SectionWords(tokens, key) ==
    LET i == Find(tokens, key)
        rest == Drop(tokens, i)
    IN  IF i = 0 THEN <<>> ELSE Take(rest, Find(rest, RP) - 1)

WithType(names, type) ==
    FlatMap(LAMBDA n : <<[name |-> VariableName(n), type |-> type]>>, names)

\* "n1 n2 - t" gives n1 and n2 the type t
RECURSIVE TypedList(_, _)
TypedList(words, names) ==
    IF words = <<>> THEN WithType(names, "object")
    ELSE IF Head(words) = "-"
    THEN WithType(names, words[2]) \o TypedList(Drop(words, 2), <<>>)
    ELSE TypedList(Tail(words), Append(names, Head(words)))

\* the action whose name is the token after position i
ReadAction(tokens, i) ==
    [name |-> tokens[i + 1],
     parameters |->
        TypedList(Tail(SectionWords(Drop(tokens, i), ":parameters")), <<>>)]

ReadActions(tokens) ==
    FlatMap(LAMBDA i : IF tokens[i] = ":action"
                       THEN <<ReadAction(tokens, i)>> ELSE <<>>,
            [i \in 1..Len(tokens) |-> i])

PddlReaderParseProblem(domain_text, problem_text) ==
    LET d == PddlTokens(domain_text)
        q == PddlTokens(problem_text)
    IN  [actions |-> ReadActions(d),
         objects |-> SeqToSet(TypedList(SectionWords(d, ":constants"), <<>>))
                        \cup SeqToSet(TypedList(SectionWords(q, ":objects"), <<>>))]

-----------------------------------------------------------------------------
(* Plans, and class PlanConverter: ma_plan_validator.py 33-67 *)

None == "None"

\* PartialOrderPlan.all_sequential_plans(): the orders of the plan's
\* occurrences (by index) that respect its ordering constraints
Position(l, i) == CHOOSE k \in DOMAIN l : l[k] = i

AllSequentialPlans(plan) ==
    {l \in Orders(DOMAIN plan.actions) :
        \A c \in plan.before : Position(l, c[1]) < Position(l, c[2])}

\* the occurrences in the order l
SequentialPlan(plan, l) == [k \in DOMAIN l |-> plan.actions[l[k]]]

Raise(error) == [status |-> error, val |-> <<>>]
Return(v) == [status |-> "ok", val |-> v]

\* _get_agent_param: the object named like the action's first parameter
GetAgentParam(problem, act_prob) ==
    LET found == {o \in problem.objects : o.name = act_prob.parameters[1].name}
    IN  IF found = {} THEN Raise("UPValueError")
        ELSE LET agent_param == CHOOSE o \in found : TRUE
             IN  IF agent_param.type /= act_prob.parameters[1].type
                 THEN Raise("AssertionError")
                 ELSE Return(agent_param.name)

\* the first action of the classical problem with that name, 0 when none
FirstNamed(problem, action_name) ==
    IF \E i \in DOMAIN problem.actions : problem.actions[i].name = action_name
    THEN CHOOSE i \in DOMAIN problem.actions :
            /\ problem.actions[i].name = action_name
            /\ \A j \in 1..(i - 1) : problem.actions[j].name /= action_name
    ELSE 0

\* _convert_action
ConvertActionLenient(problem, action_instance) ==
    IF FirstNamed(problem,
                  action_instance.action \o "_" \o action_instance.agent) = 0
    THEN Return([action |-> action_instance.action,
                 params |-> action_instance.actual_parameters])
    ELSE Return([action |->
                     action_instance.action \o "_" \o action_instance.agent,
                 params |-> <<action_instance.agent>>
                     \o action_instance.actual_parameters])

ConvertActionAgentLast(problem, action_instance) ==
    IF FirstNamed(problem,
                  action_instance.action \o "_" \o action_instance.agent) = 0
    THEN Raise("ValueError: no matching action")
    ELSE Return([action |->
                     action_instance.action \o "_" \o action_instance.agent,
                 params |-> action_instance.actual_parameters
                     \o <<action_instance.agent>>])

ConvertAction(problem, action_instance) ==
    IF action_instance.agent = None THEN Raise("ValueError: no agent")
    ELSE LET action_name ==
                 action_instance.action \o "_" \o action_instance.agent
             i == FirstNamed(problem, action_name)
         IN  IF i = 0 THEN Raise("ValueError: no matching action")
             ELSE LET act_prob == problem.actions[i]
                      agent_param == GetAgentParam(problem, act_prob)
                  IN  IF agent_param.status /= "ok" THEN agent_param
                      ELSE Return([action |-> act_prob.name,
                                   params |-> <<agent_param.val>>
                                       \o action_instance.actual_parameters])

\* convert_sequential_plan: the first occurrence that fails ends it
RECURSIVE ConvertFrom(_, _, _)
ConvertFrom(problem, actions, new_plan) ==
    IF actions = <<>> THEN Return(new_plan)
    ELSE LET new_act_instance == ConvertAction(problem, Head(actions))
         IN  IF new_act_instance.status /= "ok" THEN new_act_instance
             ELSE ConvertFrom(problem, Tail(actions),
                              Append(new_plan, new_act_instance.val))

\* a converter that walks the plan from its last occurrence
ReverseOf(t) == [k \in DOMAIN t |-> t[Len(t) + 1 - k]]

ConvertSequentialPlanBackwards(problem, sequential_plan) ==
    ConvertFrom(problem, ReverseOf(sequential_plan), <<>>)

ConvertSequentialPlan(problem, sequential_plan) ==
    ConvertFrom(problem, sequential_plan, <<>>)

-----------------------------------------------------------------------------
(* PlanningProblem(domainfile, problemfile) as a machine, followed by      *)
(* write_pddl_domain / write_pddl_problem and a second construction from   *)
(* the files written.                                                      *)

ParseInit ==
    /\ \E in \in ParseInputs :
          /\ domainfile = in[1]
          /\ problemfile = in[2]
    /\ file_array = <<>>
    /\ planning_problem = NewPlanningProblem
    /\ ppc = "open_domain"
    /\ round = 1
    /\ first = NewPlanningProblem
    /\ new_domainfile = <<>>
    /\ new_problemfile = <<>>
    /\ TokIdle
    /\ TypeIdle
    /\ ValIdle
    /\ PropIdle

Outcome(st, pc) == IF st.status = "ok" THEN pc ELSE st.status

\* parse_domain, lines 173-185
OpenDomain ==
    /\ ppc = "open_domain"
    /\ LET dfile_array == GetFileAsArray(IF round = 1 THEN domainfile
                                         ELSE new_domainfile)
           st == DomainHeader(planning_problem, dfile_array)
       IN  /\ planning_problem' = st
           /\ file_array' = IF st.status = "ok" THEN DomainBody(dfile_array)
                            ELSE <<>>
           /\ ppc' = Outcome(st, "domain_words")
    /\ UNCHANGED <<domainfile, problemfile, round, first, new_domainfile,
                   new_problemfile>>
    /\ UNCHANGED <<tokVars, typeVars, valVars, propVars>>

\* parse_domain, one iteration of lines 186-281
DomainWordStep ==
    /\ ppc = "domain_words"
    /\ file_array /= <<>>
    /\ LET st == DomainWord(planning_problem, Head(file_array))
       IN  /\ planning_problem' = st
           /\ ppc' = Outcome(st, "domain_words")
    /\ file_array' = Tail(file_array)
    /\ UNCHANGED <<domainfile, problemfile, round, first, new_domainfile,
                   new_problemfile>>
    /\ UNCHANGED <<tokVars, typeVars, valVars, propVars>>

\* parse_domain, lines 283-308
DomainActionsStep ==
    /\ ppc = "domain_words"
    /\ file_array = <<>>
    /\ LET st == DomainActions(planning_problem)
       IN  /\ planning_problem' = st
           /\ ppc' = Outcome(st, "open_problem")
    /\ UNCHANGED <<domainfile, problemfile, file_array, round, first,
                   new_domainfile, new_problemfile>>
    /\ UNCHANGED <<tokVars, typeVars, valVars, propVars>>

\* parse_problem, lines 313-338
OpenProblem ==
    /\ ppc = "open_problem"
    /\ LET pfile_array == GetFileAsArray(IF round = 1 THEN problemfile
                                         ELSE new_problemfile)
           st == ProblemHeader(planning_problem, pfile_array)
       IN  /\ planning_problem' = st
           /\ file_array' = IF st.status = "ok" THEN ProblemBody(pfile_array)
                            ELSE <<>>
           /\ ppc' = Outcome(st, "problem_words")
    /\ UNCHANGED <<domainfile, problemfile, round, first, new_domainfile,
                   new_problemfile>>
    /\ UNCHANGED <<tokVars, typeVars, valVars, propVars>>

\* parse_problem, one iteration of lines 339-406
ProblemWordStep ==
    /\ ppc = "problem_words"
    /\ file_array /= <<>>
    /\ LET st == ProblemWord(planning_problem, Head(file_array))
       IN  /\ planning_problem' = st
           /\ ppc' = Outcome(st, "problem_words")
    /\ file_array' = Tail(file_array)
    /\ UNCHANGED <<domainfile, problemfile, round, first, new_domainfile,
                   new_problemfile>>
    /\ UNCHANGED <<tokVars, typeVars, valVars, propVars>>

\* __init__, lines 165-168
FinishInitStep ==
    /\ ppc = "problem_words"
    /\ file_array = <<>>
    /\ planning_problem' = FinishInit(planning_problem)
    /\ ppc' = "built"
    /\ UNCHANGED <<domainfile, problemfile, file_array, round, first,
                   new_domainfile, new_problemfile>>
    /\ UNCHANGED <<tokVars, typeVars, valVars, propVars>>

\* write_pddl_domain
WriteDomainStep ==
    /\ ppc = "built"
    /\ round = 1
    /\ \E req_order \in Orders(planning_problem.requirements) :
          new_domainfile' = WritePddlDomain(planning_problem, req_order)
    /\ ppc' = "domain_written"
    /\ UNCHANGED <<domainfile, problemfile, file_array, planning_problem,
                   round, first, new_problemfile>>
    /\ UNCHANGED <<tokVars, typeVars, valVars, propVars>>

\* write_pddl_problem, then PlanningProblem(...) on the files written
WriteProblemStep ==
    /\ ppc = "domain_written"
    /\ IF WriteProblemRaises(planning_problem)
       THEN /\ ppc' = "crash"
            /\ UNCHANGED <<new_problemfile, planning_problem, round, first>>
       ELSE /\ \E obj_order \in Orders(planning_problem.object_list) :
                  new_problemfile' =
                      WritePddlProblem(planning_problem, obj_order)
            /\ first' = planning_problem
            /\ planning_problem' = NewPlanningProblem
            /\ round' = 2
            /\ ppc' = "open_domain"
    /\ UNCHANGED <<domainfile, problemfile, file_array, new_domainfile>>
    /\ UNCHANGED <<tokVars, typeVars, valVars, propVars>>

ParseNext ==
    \/ OpenDomain
    \/ DomainWordStep
    \/ DomainActionsStep
    \/ OpenProblem
    \/ ProblemWordStep
    \/ FinishInitStep
    \/ WriteDomainStep
    \/ WriteProblemStep

SpecParse == ParseInit /\ [][ParseNext]_vars

-----------------------------------------------------------------------------
(* get_objects_of_type as a machine, on instances built from domains that  *)
(* differ in their type hierarchy                                          *)

TypeNames == {"agent", "robot", "loc"}

\* "sub - super" declarations of a :types section
TypeDecls == {<<sub, super>> : sub \in TypeNames,
                               super \in {"object", "agent", "robot"}}

TypeDeclWords(d) == <<d[1], "-", d[2]>>

DeclaredTypes(decls) ==
    {"object"} \cup {decls[i][1] : i \in DOMAIN decls}
        \cup {decls[i][2] : i \in DOMAIN decls}

\* one object (and, for some types, one constant) of every declared type
ObjectOf(t) == CASE t = "agent" -> "a1" [] t = "robot" -> "r1"
                 [] t = "loc" -> "l1" [] OTHER -> "o1"
ConstantOf(t) == CASE t = "agent" -> "c1" [] t = "robot" -> "c2"
                   [] t = "loc" -> "base" [] OTHER -> "c0"

TypeOrder == <<"object", "agent", "robot", "loc">>

AgentAction(t) ==
    <<LP, ":action", "act-" \o t, ":agent", "?a", "-", t,
      ":parameters", LP, RP, ":precondition", LP, "p", RP,
      ":effect", LP, "p", RP, RP>>

TypedDomain(decls, agentTypes) ==
    LET known == DeclaredTypes(decls)
        Const(t) == IF t \in known \ {"object", "robot"}
                    THEN <<ConstantOf(t), "-", t>> ELSE <<>>
        Act(t) == IF t \in agentTypes THEN AgentAction(t) ELSE <<>>
    IN  Words(<<LP, "define", LP, "domain", "d", RP>>
              \o RequirementsSection(<<"typing">>)
              \o <<LP, ":types">> \o FlatMap(TypeDeclWords, decls) \o <<RP>>
              \o <<LP, ":constants">> \o FlatMap(Const, TypeOrder) \o <<RP>>
              \o <<LP, ":predicates", LP, "p", RP, RP>>
              \o FlatMap(Act, TypeOrder)
              \o <<RP>>)

TypedProblem(decls) ==
    LET known == DeclaredTypes(decls)
        Obj(t) == IF t \in known THEN <<ObjectOf(t), "-", t>> ELSE <<>>
    IN  Words(<<LP, "define", LP, "problem", "p", RP, LP, ":domain", "d", RP,
                LP, ":objects">> \o FlatMap(Obj, TypeOrder) \o <<RP,
                LP, ":init", LP, "p", RP, RP,
                LP, ":goal", LP, "and", LP, "p", RP, RP, RP, RP>>)

\* PlanningProblem(domainfile, problemfile), lines 142-168
Construct(dtext, ptext) ==
    LET d == ParseDomain(NewPlanningProblem, GetFileAsArray(dtext))
    IN  IF d.status /= "ok" THEN d
        ELSE LET q == ParseProblem(d, GetFileAsArray(ptext))
             IN  IF q.status /= "ok" THEN q ELSE FinishInit(q)

TypesInit ==
    /\ \E decls \in SeqsUpTo(TypeDecls, MaxTypeDecls) :
       \E agentTypes \in SUBSET (DeclaredTypes(decls) \ {"object"}) :
          /\ Cardinality(agentTypes) <= 2
          /\ domainfile = TypedDomain(decls, agentTypes)
          /\ problemfile = TypedProblem(decls)
    /\ planning_problem = Construct(domainfile, problemfile)
    /\ planning_problem.status = "ok"
    /\ file_array = <<>>
    /\ ppc = "built"
    /\ round = 1
    /\ first = NewPlanningProblem
    /\ new_domainfile = <<>>
    /\ new_problemfile = <<>>
    /\ TokIdle
    /\ TypeIdle
    /\ ValIdle
    /\ PropIdle

\* the types a caller may ask for: any name, known or not
QueryTypes == TypeNames \cup {"object", "ghost"}

\* line 417-418
CallGetObjectsOfType ==
    /\ gpc = "idle"
    /\ \E t \in QueryTypes : of_type' = t /\ selected_types' = {t}
    /\ pre_size' = 0
    /\ selected_objects' = {}
    /\ gpc' = "while"
    /\ UNCHANGED <<tokVars, parseVars, valVars, propVars>>

\* (an iteration that does not note the size it started from)
WhilePassKeepingSize ==
    /\ gpc = "while"
    /\ Cardinality(selected_types) > pre_size
    /\ selected_types' = TypePass(planning_problem.types, selected_types)
    /\ UNCHANGED <<of_type, pre_size, selected_objects, gpc>>
    /\ UNCHANGED <<tokVars, parseVars, valVars, propVars>>

\* lines 419-423, one iteration of the while loop
WhilePass ==
    /\ gpc = "while"
    /\ Cardinality(selected_types) > pre_size
    /\ pre_size' = Cardinality(selected_types)
    /\ selected_types' = TypePass(planning_problem.types, selected_types)
    /\ UNCHANGED <<of_type, selected_objects, gpc>>
    /\ UNCHANGED <<tokVars, parseVars, valVars, propVars>>

\* lines 424-430
CollectObjects ==
    /\ gpc = "while"
    /\ ~(Cardinality(selected_types) > pre_size)
    /\ selected_objects' = ObjectsIn(planning_problem, selected_types)
    /\ gpc' = "done"
    /\ UNCHANGED <<of_type, selected_types, pre_size>>
    /\ UNCHANGED <<tokVars, parseVars, valVars, propVars>>

\* the caller takes the result
ReturnObjects ==
    /\ gpc = "done"
    /\ gpc' = "idle"
    /\ of_type' = ""
    /\ selected_types' = {}
    /\ pre_size' = 0
    /\ selected_objects' = {}
    /\ UNCHANGED <<tokVars, parseVars, valVars, propVars>>

TypesNext ==
    \/ CallGetObjectsOfType
    \/ WhilePass
    \/ CollectObjects
    \/ ReturnObjects

SpecTypes == TypesInit /\ [][TypesNext]_vars

\* the interpreter goes on running the call: a step that can be taken is
\* taken at some time
SpecTypesFair == SpecTypes /\ WF_vars(TypesNext)

-----------------------------------------------------------------------------
(* The plans a request may carry *)

AgentNames == {"a1", "a2", "a3", None}

\* occurrences of move by each agent, and two distinct ones by a1
ActionInstances ==
    {[action |-> "move", agent |-> g, actual_parameters |-> <<"l1">>] :
        g \in AgentNames}
        \cup {[action |-> "move", agent |-> "a1",
               actual_parameters |-> <<"l2">>]}

\* partial-order plans of n occurrences, with the ordering constraints
\* drawn from the pairs i before j, i < j
PartialOrderPlans(n) ==
    UNION {{[actions |-> as, before |-> b] :
               b \in SUBSET {c \in (1..n) \X (1..n) : c[1] < c[2]}} :
              as \in [1..n -> ActionInstances]}

-----------------------------------------------------------------------------
(* MAPlanValidator._validate as a machine: ma_plan_validator.py 80-142     *)
(* One step per file-system call and per iteration of the validation loop. *)

\* the answer of SequentialPlanValidator.validate for the linearization l:
\* rq.valid holds the linearizations the classical checker accepts
ValidationStatus(rq, l) == IF l \in rq.valid THEN "VALID" ELSE "INVALID"

\* lines 134-135
IsValidPlanAfter(is_valid_plan, status) ==
    IF status /= "VALID" THEN FALSE ELSE is_valid_plan

\* lines 134, 137
Breaks(status) == status /= "VALID"

\* lines 139-142
Result(is_valid_plan) == IF is_valid_plan THEN "VALID" ELSE "INVALID"

\* what the caller sees of sys.exit() and of an uncaught exception
Raised(status) == IF status = "exit" THEN "SystemExit" ELSE "Exception"

Goto(r, pc) == req' = [req EXCEPT ![r] = [@ EXCEPT !.pc = pc]]

Fail(r, error) ==
    req' = [req EXCEPT ![r] = [@ EXCEPT !.pc = "done", !.raised = error]]

\* lines 83-93: the argument assertions and the kind check
Validate(r) ==
    /\ req[r].pc = "called"
    /\ IF req[r].plan_kind /= "partial_order" THEN Fail(r, "AssertionError")
       ELSE \E check \in {"supported", "warned", "refused"} :
               IF check = "refused" THEN Fail(r, "UPUsageError")
               ELSE Goto(r, "exists")
    /\ UNCHANGED <<fs, dirs>>
    /\ UNCHANGED <<tokVars, parseVars, typeVars, propVars>>

\* line 101
ExistsDomainDir(r) ==
    /\ req[r].pc = "exists"
    /\ IF DomainDir(req[r].name) \in dirs THEN Goto(r, "write_ma_domain")
       ELSE Goto(r, "makedirs")
    /\ UNCHANGED <<fs, dirs>>
    /\ UNCHANGED <<tokVars, parseVars, typeVars, propVars>>

\* line 102
MakeDomainDir(r) ==
    /\ req[r].pc = "makedirs"
    /\ IF DomainDir(req[r].name) \in dirs
       THEN /\ Fail(r, "FileExistsError")
            /\ UNCHANGED dirs
       ELSE /\ dirs' = dirs \cup {DomainDir(req[r].name)}
            /\ Goto(r, "write_ma_domain")
    /\ UNCHANGED fs
    /\ UNCHANGED <<tokVars, parseVars, typeVars, propVars>>

\* line 104
WriteMaDomain(r) ==
    /\ req[r].pc = "write_ma_domain"
    /\ fs' = [fs EXCEPT ![DomainPath(req[r].name)] =
                 File(WriterDomain(req[r].name, req[r].shape), {r})]
    /\ Goto(r, "write_ma_problem")
    /\ UNCHANGED dirs
    /\ UNCHANGED <<tokVars, parseVars, typeVars, propVars>>

\* line 105
WriteMaProblem(r) ==
    /\ req[r].pc = "write_ma_problem"
    /\ fs' = [fs EXCEPT ![ProblemPath(req[r].name)] =
                 File(WriterProblem(req[r].name, req[r].shape), {r})]
    /\ Goto(r, "makedirs_centralized")
    /\ UNCHANGED dirs
    /\ UNCHANGED <<tokVars, parseVars, typeVars, propVars>>

\* line 112
MakeCentralizedDir(r) ==
    /\ req[r].pc = "makedirs_centralized"
    /\ dirs' = dirs \cup {CentralizedDir}
    /\ Goto(r, "parse_domain")
    /\ UNCHANGED fs
    /\ UNCHANGED <<tokVars, parseVars, typeVars, propVars>>

\* line 118, PlanningProblem.__init__ up to parse_domain
ParseDomainFile(r) ==
    /\ req[r].pc = "parse_domain"
    /\ LET file == fs[DomainPath(req[r].name)]
           st == ParseDomain(NewPlanningProblem, GetFileAsArray(file.text))
       IN  req' = [req EXCEPT ![r] =
                      [@ EXCEPT !.planning_problem = st,
                                !.read_from = file.from,
                                !.pc = IF st.status = "ok"
                                       THEN "parse_problem" ELSE "done",
                                !.raised = IF st.status = "ok"
                                           THEN "none" ELSE Raised(st.status)]]
    /\ UNCHANGED <<fs, dirs>>
    /\ UNCHANGED <<tokVars, parseVars, typeVars, propVars>>

\* line 118, PlanningProblem.__init__ from parse_problem on
ParseProblemFile(r) ==
    /\ req[r].pc = "parse_problem"
    /\ LET file == fs[ProblemPath(req[r].name)]
           q == ParseProblem(req[r].planning_problem,
                             GetFileAsArray(file.text))
           st == IF q.status = "ok" THEN FinishInit(q) ELSE q
       IN  req' = [req EXCEPT ![r] =
                      [@ EXCEPT !.planning_problem = st,
                                !.read_from = @ \cup file.from,
                                !.pc = IF st.status = "ok"
                                       THEN "write_domain" ELSE "done",
                                !.raised = IF st.status = "ok"
                                           THEN "none" ELSE Raised(st.status)]]
    /\ UNCHANGED <<fs, dirs>>
    /\ UNCHANGED <<tokVars, parseVars, typeVars, propVars>>

\* line 119
WritePddlDomainFile(r) ==
    /\ req[r].pc = "write_domain"
    /\ \E req_order \in Orders(req[r].planning_problem.requirements) :
          fs' = [fs EXCEPT ![NewDomainPath(req[r].name)] =
                    File(WritePddlDomain(req[r].planning_problem, req_order),
                         req[r].read_from)]
    /\ Goto(r, "write_problem")
    /\ UNCHANGED dirs
    /\ UNCHANGED <<tokVars, parseVars, typeVars, propVars>>

\* line 120; open(output_file, "w") leaves an empty file when the write
\* raises
WritePddlProblemFile(r) ==
    /\ req[r].pc = "write_problem"
    /\ IF WriteProblemRaises(req[r].planning_problem)
       THEN /\ Fail(r, "Exception")
            /\ fs' = [fs EXCEPT ![NewProblemPath(req[r].name)] =
                         File(<<>>, {})]
       ELSE /\ \E obj_order \in Orders(req[r].planning_problem.object_list) :
                  fs' = [fs EXCEPT ![NewProblemPath(req[r].name)] =
                            File(WritePddlProblem(req[r].planning_problem,
                                                  obj_order),
                                 req[r].read_from)]
            /\ Goto(r, "read_pddl")
    /\ UNCHANGED dirs
    /\ UNCHANGED <<tokVars, parseVars, typeVars, propVars>>

\* lines 123-125
ParsePddlFiles(r) ==
    /\ req[r].pc = "read_pddl"
    /\ LET d == fs[NewDomainPath(req[r].name)]
           q == fs[NewProblemPath(req[r].name)]
       IN  req' = [req EXCEPT ![r] =
                      [@ EXCEPT !.pddl_problem =
                                    PddlReaderParseProblem(d.text, q.text),
                                !.pddl_from = d.from \cup q.from,
                                !.pc = "iterate"]]
    /\ UNCHANGED <<fs, dirs>>
    /\ UNCHANGED <<tokVars, parseVars, typeVars, propVars>>

\* line 130, plan.all_sequential_plans(): the plan's occurrences and
\* ordering are read, and with them is fixed which of its linearizations the
\* classical checker accepts
IterateSequentialPlans(r) ==
    /\ req[r].pc = "iterate"
    /\ \E plan \in PartialOrderPlans(req[r].plan_size) :
          \E valid \in SUBSET AllSequentialPlans(plan) :
             req' = [req EXCEPT ![r] =
                        [@ EXCEPT !.plan = plan, !.valid = valid,
                                  !.pc = "for"]]
    /\ UNCHANGED <<fs, dirs>>
    /\ UNCHANGED <<tokVars, parseVars, typeVars, propVars>>

\* the linearizations all_sequential_plans() has not yielded yet
Remaining(rq) == AllSequentialPlans(rq.plan) \ SeqToSet(rq.converted)

\* lines 130-137: one iteration of the loop, on the linearization the
\* generator yields next
ValidateSequentialPlan(r) ==
    /\ req[r].pc = "for"
    /\ \E l \in Remaining(req[r]) :
          LET new_seq_plan ==
                  ConvertSequentialPlan(req[r].pddl_problem,
                                        SequentialPlan(req[r].plan, l))
              status == ValidationStatus(req[r], l)
          IN  IF new_seq_plan.status /= "ok"
              THEN req' = [req EXCEPT ![r] =
                              [@ EXCEPT !.converted = Append(@, l),
                                        !.pc = "done",
                                        !.raised = new_seq_plan.status]]
              ELSE req' = [req EXCEPT ![r] =
                              [@ EXCEPT !.converted = Append(@, l),
                                        !.new_seq_plan = new_seq_plan.val,
                                        !.submitted = Append(@, l),
                                        !.is_valid_plan =
                                            IsValidPlanAfter(@, status),
                                        !.pc = IF Breaks(status)
                                               THEN "if" ELSE "for"]]
    /\ UNCHANGED <<fs, dirs>>
    /\ UNCHANGED <<tokVars, parseVars, typeVars, propVars>>

\* lines 139-142, after the break or when the generator is exhausted
ReturnResult(r) ==
    /\ \/ req[r].pc = "if"
       \/ req[r].pc = "for" /\ Remaining(req[r]) = {}
    /\ req' = [req EXCEPT ![r] =
                  [@ EXCEPT !.result = Result(req[r].is_valid_plan),
                            !.pc = "done"]]
    /\ UNCHANGED <<fs, dirs>>
    /\ UNCHANGED <<tokVars, parseVars, typeVars, propVars>>

Next ==
    \E r \in Requests :
        \/ Validate(r)
        \/ ExistsDomainDir(r)
        \/ MakeDomainDir(r)
        \/ WriteMaDomain(r)
        \/ WriteMaProblem(r)
        \/ MakeCentralizedDir(r)
        \/ ParseDomainFile(r)
        \/ ParseProblemFile(r)
        \/ WritePddlDomainFile(r)
        \/ WritePddlProblemFile(r)
        \/ ParsePddlFiles(r)
        \/ IterateSequentialPlans(r)
        \/ ValidateSequentialPlan(r)
        \/ ReturnResult(r)

-----------------------------------------------------------------------------
(* The requests a session may make *)

NewRequest(name, shape, plan_kind, plan_size) ==
    [NoRequest EXCEPT !.pc = "called", !.name = name, !.shape = shape,
                      !.plan_kind = plan_kind, !.plan_size = plan_size]

\* one request at a time; the directory of its problem may be there already
Init ==
    /\ fs = [path \in Paths |-> NoFile]
    /\ dirs \in {{}, {DomainDir("p"), CentralizedDir}}
    /\ \E shape \in {"sound", "undeclared"},
          plan_kind \in {"partial_order", "sequential"},
          plan_size \in 1..MaxOcc :
          req = [r \in Requests |->
                    IF r = 1 THEN NewRequest("p", shape, plan_kind, plan_size)
                    ELSE NoRequest]
    /\ TokIdle
    /\ ParseIdle
    /\ TypeIdle
    /\ PropIdle

Spec == Init /\ [][Next]_vars

\* two requests of one session in flight together, each with a plan of one
\* occurrence; the second problem has the name of the first or another
ConcurrentInit ==
    /\ fs = [path \in Paths |-> NoFile]
    /\ dirs = {}
    /\ \E name \in ProblemNames,
          shapes \in [Requests -> {"sound", "undeclared"}] :
          req = [r \in Requests |->
                    NewRequest(IF r = 1 THEN "p" ELSE name, shapes[r],
                               "partial_order", 1)]
    /\ TokIdle
    /\ ParseIdle
    /\ TypeIdle
    /\ PropIdle

SpecConcurrent == ConcurrentInit /\ [][Next]_vars

-----------------------------------------------------------------------------
(* Claims on the validation of a request *)

\* the name of the classical action of an occurrence
ClassicalName(occ) == occ.action \o "_" \o occ.agent

ClassicalActions(rq, occ) ==
    {i \in DOMAIN rq.pddl_problem.actions :
        rq.pddl_problem.actions[i].name = ClassicalName(occ)}

\* the classical model has an action a_g for the occurrence
HasClassicalAction(rq, occ) == ClassicalActions(rq, occ) /= {}

\* ... whose first parameter has the declared type of the agent object
AgentTypeAgrees(rq, occ) ==
    \E i \in ClassicalActions(rq, occ) :
        [name |-> occ.agent,
         type |-> rq.pddl_problem.actions[i].parameters[1].type]
            \in rq.pddl_problem.objects

Remaps(rq, occ) ==
    occ.agent /= None /\ HasClassicalAction(rq, occ) /\ AgentTypeAgrees(rq, occ)

\* the request has read its plan
PlanRead(rq) == rq.plan /= NoPlan

AllRemap(rq) ==
    \A i \in DOMAIN rq.plan.actions : Remaps(rq, rq.plan.actions[i])

Accepted(rq) == {l \in AllSequentialPlans(rq.plan) : l \in rq.valid}
Rejected(rq) == AllSequentialPlans(rq.plan) \ rq.valid

Ended(rq) == rq.pc = "done"

\* C1, as stated: for a plan whose occurrences all remap, the verdict is
\* VALID iff the checker accepts at least one linearization, and INVALID iff
\* it rejects all of them.
C1_ValidIffSomeAccepted ==
    \A r \in Requests :
        (Ended(req[r]) /\ PlanRead(req[r]) /\ AllRemap(req[r])) =>
            /\ req[r].result = "VALID" <=> Accepted(req[r]) /= {}
            /\ req[r].result = "INVALID" <=> Accepted(req[r]) = {}

\* What the loop computes instead: for a plan whose occurrences all remap,
\* the verdict is VALID iff the checker accepts every linearization, and
\* INVALID iff it rejects at least one.
C1_ValidIffAllAccepted ==
    \A r \in Requests :
        (Ended(req[r]) /\ PlanRead(req[r]) /\ AllRemap(req[r])) =>
            /\ req[r].result = "VALID" <=> Rejected(req[r]) = {}
            /\ req[r].result = "INVALID" <=> Rejected(req[r]) /= {}

\* two linearizations, one accepted and one rejected, and the verdict given
C1_OneOfTwoAccepted ==
    \E r \in Requests :
        /\ Ended(req[r]) /\ PlanRead(req[r]) /\ AllRemap(req[r])
        /\ Accepted(req[r]) /= {} /\ Rejected(req[r]) /= {}
        /\ req[r].result = "INVALID"

\* the linearizations remapped before the last one
Earlier(rq) == {rq.converted[k] : k \in 1..(Len(rq.converted) - 1)}

\* C2, as stated: once the checker has accepted one linearization, no
\* further linearization is remapped or submitted.
C2_StopsAtFirstAccepted ==
    \A r \in Requests :
        \A l \in Earlier(req[r]) :
            ~(l \in SeqToSet(req[r].submitted) /\ l \in req[r].valid)

\* What the loop does instead: it stops at the first rejection.  Every
\* linearization but the last one remapped was submitted and accepted, and
\* after a rejection the request is past its loop.
C2_StopsAtFirstRejected ==
    \A r \in Requests :
        /\ \A l \in Earlier(req[r]) :
              l \in SeqToSet(req[r].submitted) /\ l \in req[r].valid
        /\ (\E l \in SeqToSet(req[r].submitted) : l \notin req[r].valid) =>
              req[r].pc \in {"if", "done"}

\* a rejection while linearizations were left, and the verdict given
C2_RejectedWithSomeLeft ==
    \E r \in Requests :
        /\ Ended(req[r])
        /\ \E l \in SeqToSet(req[r].submitted) : l \notin req[r].valid
        /\ Remaining(req[r]) /= {}
        /\ req[r].result = "INVALID"

\* the occurrences of the linearization l, and those that do not remap
Occurrences(rq, l) == SequentialPlan(rq.plan, l)

ContainsFailing(rq, l) ==
    \E k \in DOMAIN l : ~Remaps(rq, Occurrences(rq, l)[k])

\* how often the linearization l was handed to the remapper
TimesConverted(rq, l) ==
    Cardinality({k \in DOMAIN rq.converted : rq.converted[k] = l})

\* every occurrence of the plan has an agent
HasAgents(rq) ==
    \A i \in DOMAIN rq.plan.actions : rq.plan.actions[i].agent /= None

IsSessionError(rq) ==
    Ended(rq) /\ rq.raised /= "none" /\ rq.result = "none"

\* C3: a request ends in exactly one of VALID, INVALID and the session
\* error, and gives none of them before it ends.  When the parser hits a
\* fatal error the request is a session error, and nothing was remapped or
\* submitted.  When an occurrence of a linearization does not remap (no
\* classical action of its name, or a first parameter of another type than
\* its agent) the request is a session error, that linearization was not
\* submitted to the checker, was remapped once and is the last one remapped.
C3_SessionError ==
    \A r \in Requests :
        /\ Ended(req[r]) =>
              (req[r].result \in {"VALID", "INVALID"}) /= (req[r].raised /= "none")
        /\ ~Ended(req[r]) => req[r].result = "none" /\ req[r].raised = "none"
        /\ req[r].result \in {"none", "VALID", "INVALID"}
        /\ req[r].planning_problem.status /= "ok" =>
              /\ IsSessionError(req[r])
              /\ req[r].converted = <<>> /\ req[r].submitted = <<>>
              /\ req[r].pddl_problem = NoPddlProblem
        /\ \A k \in DOMAIN req[r].converted :
              ContainsFailing(req[r], req[r].converted[k]) =>
                  /\ IsSessionError(req[r])
                  /\ req[r].converted[k] \notin SeqToSet(req[r].submitted)
                  /\ TimesConverted(req[r], req[r].converted[k]) = 1
                  /\ k = Len(req[r].converted)

\* a plan of two unordered occurrences, one with an agent whose type
\* differs from its action's first parameter, has ended the request
C3_Witness ==
    \E r \in Requests :
        /\ IsSessionError(req[r])
        /\ HasAgents(req[r])
        /\ Len(req[r].converted) = 1
        /\ ContainsFailing(req[r], req[r].converted[1])
        /\ Cardinality(AllSequentialPlans(req[r].plan)) = 2
        /\ \E i \in DOMAIN req[r].plan.actions :
              /\ HasClassicalAction(req[r], req[r].plan.actions[i])
              /\ ~AgentTypeAgrees(req[r], req[r].plan.actions[i])

\* the parser's fatal error has ended a request
C3_ParseFatalReached ==
    \E r \in Requests :
        IsSessionError(req[r]) /\ req[r].planning_problem.status /= "ok"

\* the occurrence of a_g with g as parameter 0 and the arguments after it
Remapped(occ) ==
    [action |-> ClassicalName(occ),
     params |-> <<occ.agent>> \o occ.actual_parameters]

\* the linearization remapped last
LastConverted(rq) == rq.converted[Len(rq.converted)]

\* the least position in the set K
FirstIn(K) == CHOOSE k \in K : \A j \in K : k <= j

\* C4, as stated: remapping an occurrence (a, g, x1..xn) against a classical
\* model that has an action a_g gives the occurrence of a_g with g as
\* parameter 0 and x1..xn after it; without an action a_g it fails with the
\* action-lookup error.  On a linearization: with an action for each
\* occurrence the remapped plan is made of those occurrences, otherwise the
\* request ends with the lookup error.
C4_RemapByName ==
    \A r \in Requests :
        (req[r].converted /= <<>> /\ HasAgents(req[r])) =>
            LET occs == Occurrences(req[r], LastConverted(req[r]))
                missing == {k \in DOMAIN occs :
                               ~HasClassicalAction(req[r], occs[k])}
            IN  IF missing = {}
                THEN /\ req[r].raised = "none"
                     /\ req[r].new_seq_plan =
                            [k \in DOMAIN occs |-> Remapped(occs[k])]
                ELSE req[r].raised = "ValueError: no matching action"

\* C4, amended: remapping an occurrence (a, g, x1..xn) against a classical
\* model that has an action a_g whose first parameter has the declared type
\* of the object g gives the occurrence of a_g with g as parameter 0 and
\* x1..xn after it; without an action a_g it fails with the action-lookup
\* error; with an action a_g whose first parameter has another type than g
\* it fails with an assertion error.  A linearization fails as its first
\* failing occurrence does.
C4_RemapByNameAndType ==
    \A r \in Requests :
        (req[r].converted /= <<>> /\ HasAgents(req[r])) =>
            LET occs == Occurrences(req[r], LastConverted(req[r]))
                failing == {k \in DOMAIN occs : ~Remaps(req[r], occs[k])}
            IN  IF failing = {}
                THEN /\ req[r].raised = "none"
                     /\ req[r].new_seq_plan =
                            [k \in DOMAIN occs |-> Remapped(occs[k])]
                ELSE req[r].raised =
                        IF HasClassicalAction(req[r], occs[FirstIn(failing)])
                        THEN "AssertionError"
                        ELSE "ValueError: no matching action"

\* a linearization of two occurrences was remapped
C4_Witness ==
    \E r \in Requests :
        /\ req[r].converted /= <<>>
        /\ Len(req[r].new_seq_plan) = 2
        /\ ~ContainsFailing(req[r], LastConverted(req[r]))
        /\ req[r].new_seq_plan[1].params = <<"a1", "l1">>

\* an occurrence whose action exists but whose agent has another type
C4_MismatchReached ==
    \E r \in Requests :
        /\ req[r].converted /= <<>>
        /\ req[r].raised = "AssertionError"
        /\ \A k \in DOMAIN LastConverted(req[r]) :
              HasClassicalAction(req[r],
                                 Occurrences(req[r], LastConverted(req[r]))[k])

\* the files a request's problem name gives it
Artifacts(rq) ==
    {DomainPath(rq.name), ProblemPath(rq.name),
     NewDomainPath(rq.name), NewProblemPath(rq.name)}

\* C6: when a request has ended, by a verdict or by an error, none of its
\* artifact files is left.
C6_ArtifactsReclaimed ==
    \A r \in Requests :
        Ended(req[r]) => \A path \in Artifacts(req[r]) : ~fs[path].exists

\* C7: the classical model a request reparses, and the model its converter
\* builds, come from text that this request generated and from no other.
C7_OwnArtifactsOnly ==
    \A r \in Requests :
        req[r].read_from \subseteq {r} /\ req[r].pddl_from \subseteq {r}

-----------------------------------------------------------------------------
(* C9 *)

AllNames(st) ==
    QueryTypes \cup st.type_list \cup DictKeys(st.types)
        \cup UNION {SeqToSet(st.types[i].v) : i \in DOMAIN st.types}

\* X holds every subordinate of each of its members
ClosedUnderSubtypes(st, X) ==
    \A i \in DOMAIN st.types :
        st.types[i].k \in X => SeqToSet(st.types[i].v) \subseteq X

\* T and the types that descend transitively from T: the members of every
\* set of names that holds T and is closed under subordinates
Descendants(st, T) ==
    {u \in AllNames(st) :
        \A X \in SUBSET AllNames(st) :
            (T \in X /\ ClosedUnderSubtypes(st, X)) => u \in X}

\* the objects and constants declared with a type in S
DeclaredWithTypeIn(st, S) ==
    UNION {SeqToSet(st.objects[i].v) :
             i \in {k \in DOMAIN st.objects : st.objects[k].k \in S}} \cup
    UNION {SeqToSet(st.constants[i].v) :
             i \in {k \in DOMAIN st.constants : st.constants[k].k \in S}}

\* C9: get_objects_of_type(T) returns exactly the objects and constants
\* whose declared type is T or descends transitively from T, and the
\* model's agents are the union of these sets over the agent types.
C9_TypeClosure ==
    /\ gpc = "done" =>
          selected_objects =
              DeclaredWithTypeIn(planning_problem,
                                 Descendants(planning_problem, of_type))
    /\ ppc = "built" =>
          planning_problem.agents =
              UNION {DeclaredWithTypeIn(planning_problem,
                                        Descendants(planning_problem, t)) :
                       t \in planning_problem.agent_types}

\* the query for "object" has returned r1, declared robot, where robot is
\* a subordinate of agent only, and r1 is an agent of the model
C9_Witness ==
    /\ gpc = "done"
    /\ of_type = "object"
    /\ "r1" \in selected_objects
    /\ GetTypeOfObject(planning_problem, "r1") = "robot"
    /\ "robot" \notin SeqToSet(DictGet(planning_problem.types, "object"))
    /\ planning_problem.agent_types = {"agent"}
    /\ "r1" \in planning_problem.agents

-----------------------------------------------------------------------------
(* C5 *)

DictAsMap(d) == {<<d[i].k, SeqToSet(d[i].v)>> : i \in DOMAIN d}

\* the parsed model, without the parse loops' locals; collections that the
\* claim compares as sets are compared as sets
Structure(st) ==
    [domain |-> st.domain, problem |-> st.problem,
     requirements |-> st.requirements,
     type_list |-> st.type_list, types |-> DictAsMap(st.types),
     predicates |-> st.predicates, functions |-> st.functions,
     actions |-> st.actions,
     objects |-> DictAsMap(st.objects), constants |-> DictAsMap(st.constants),
     init |-> SeqToSet(st.init), ground_functions |-> st.ground_functions,
     goal |-> SeqToSet(st.goal), metric |-> st.metric]

ParseEnded == ppc \in {"built", "exit", "crash"}

\* C5: the text written by write_pddl_domain / write_pddl_problem is
\* accepted by parse_domain / parse_problem and reparses to a structurally
\* equal model, also for a domain that holds an action.
C5_RoundTrip ==
    (round = 2 /\ ParseEnded)
        => (ppc = "built" /\ Structure(planning_problem) = Structure(first))

\* the same, for the domains without actions and the problems whose
\* recorded objects hold no parenthesis
C5_RoundTripWithoutActions ==
    (round = 2 /\ ParseEnded /\ first.actions = <<>>
        /\ RP \notin first.object_list)
        => (ppc = "built" /\ Structure(planning_problem) = Structure(first))

\* the reparse of a written domain that holds an action never succeeds
C5_ActionReparseCrashes ==
    (round = 2 /\ ParseEnded /\ first.actions /= <<>>) => ppc = "crash"

-----------------------------------------------------------------------------
(* C8 *)

HasMultiAgentFlag(t) ==
    \E i \in DOMAIN t : t[i] \in {":multi-agent", ":unfactored-privacy"}

\* C8: whatever flags the domain declares, in whatever order, neither the
\* requirements of the constructed model nor the requirement list of the
\* written classical domain holds multi-agent or unfactored-privacy.
C8_NoMultiAgentFlags ==
    /\ ppc \in {"built", "domain_written"}
          => planning_problem.requirements \cap MultiAgentFlags = {}
    /\ ~HasMultiAgentFlag(new_domainfile)

\* a domain that declares a multi-agent-only flag has been written out
C8_Witness ==
    /\ ppc = "domain_written"
    /\ HasMultiAgentFlag(domainfile)
    /\ new_domainfile /= <<>>

-----------------------------------------------------------------------------
(* C10 *)

\* What the claim describes: a comment runs from ";" up to (not including)
\* the end of its line; tabs and newlines count as spaces; parentheses
\* stand alone; the rest is split on whitespace.
RECURSIVE DeleteComments(_, _)
DeleteComments(t, inComment) ==
    IF t = <<>> THEN <<>>
    ELSE IF Head(t) = NL THEN <<NL>> \o DeleteComments(Tail(t), FALSE)
    ELSE IF inComment \/ Head(t) = SEMI THEN DeleteComments(Tail(t), TRUE)
    ELSE <<Head(t)>> \o DeleteComments(Tail(t), FALSE)

ClaimedAtoms(t) ==
    Split(FlatMap(PadParen,
          FlatMap(ReplaceNewline,
          FlatMap(ReplaceTabSpace, DeleteComments(t, FALSE)))))

\* C10: for every input text the tokenizer returns the atoms of the text
\* with comments deleted up to the end of their line, tabs and newlines
\* read as spaces and parentheses isolated; in particular atoms separated
\* only by a tab, or by a comment and a line break, stay separate.
C10_TokenizerMatchesClaim ==
    tpc = "done" => atoms = ClaimedAtoms(text)


-----------------------------------------------------------------------------
(* C11 *)

\* the words of the body that the parse loop has gone through
Processed(body) == Take(body, Len(body) - Len(file_array))

ProblemHeaderOk(a) ==
    /\ Len(a) >= 10
    /\ Take(a, 4) = <<LP, "define", LP, "problem">>
    /\ SubSeq(a, 6, 8) = <<RP, LP, ":domain">>
    /\ a[10] = RP

KnownSectionKeywords == {"objects", "init", "goal", "private", "metric"}

UnknownKeywordIn(t) ==
    \E i \in DOMAIN t :
        /\ i > 1
        /\ t[i - 1] = LP
        /\ StartsWithColon(t[i])
        /\ AfterColon(t[i]) \notin KnownSectionKeywords

UnknownTypeIn(t, known) ==
    \E i \in DOMAIN t : i > 1 /\ t[i - 1] = "-" /\ t[i] \notin known

ProblemParseGoesOn ==
    round = 1 /\ ppc \in {"problem_words", "built", "domain_written"}

\* a problem whose header deviates is not parsed beyond the header
C11_HeaderFatal ==
    ProblemParseGoesOn => ProblemHeaderOk(GetFileAsArray(problemfile))

\* no word is processed, and no model returned, after an object list's
\* trailing type that is not a known type
C11_UnknownTypeFatal ==
    ProblemParseGoesOn =>
        ~UnknownTypeIn(Processed(ProblemBody(GetFileAsArray(problemfile))),
                       planning_problem.type_list)

\* no word is processed, and no model returned, after a section keyword
\* outside objects, init, goal, private, metric
C11_UnknownKeywordFatal ==
    ProblemParseGoesOn =>
        ~UnknownKeywordIn(Processed(ProblemBody(GetFileAsArray(problemfile))))

\* C11: the problem parser aborts the whole parse, returning no model and
\* processing no later word, on a header that is not
\* ( define ( problem <name> ) ( :domain <domain-name> ), on an object list
\* whose trailing type is not a known type, and on a section keyword outside
\* objects, init, goal, private, metric.
C11_ProblemParserAborts ==
    /\ C11_HeaderFatal
    /\ C11_UnknownTypeFatal
    /\ C11_UnknownKeywordFatal


-----------------------------------------------------------------------------
(* C12 *)

DomainHeaderOk(a) ==
    /\ Len(a) >= 6
    /\ Take(a, 4) = <<LP, "define", LP, "domain">>
    /\ a[6] = RP

DomainParseGoesOn ==
    /\ round = 1
    /\ ppc \in {"domain_words", "open_problem", "problem_words", "built",
                "domain_written"}

\* C12: the domain parser goes on to the sections only if the token stream
\* begins with ( define ( domain <name> ); any deviation, a missing closing
\* parenthesis after the domain name included, aborts the parse before any
\* section is processed.
C12_DomainHeaderFatal ==
    DomainParseGoesOn => DomainHeaderOk(GetFileAsArray(domainfile))

\* the same, for the first four words of the header only
C12_FirstFourWordsFatal ==
    DomainParseGoesOn =>
        Take(GetFileAsArray(domainfile), 4) = <<LP, "define", LP, "domain">>

\* a domain without the parenthesis after its name has been parsed to the
\* end and the problem parser has been started on its model
C12_ParsedWithoutParenthesis ==
    /\ round = 1
    /\ ppc = "open_problem"
    /\ ~DomainHeaderOk(GetFileAsArray(domainfile))


-----------------------------------------------------------------------------
(* C13 *)

\* the plan's ordering constraints order every two of its occurrences
IsTotalOrder(plan) ==
    \A i, j \in DOMAIN plan.actions : i < j => <<i, j>> \in plan.before

\* the occurrences in the order given
GivenOrder(plan) == [k \in DOMAIN plan.actions |-> k]

\* a plan submitted as a strictly ordered one (a sequential plan), or as a
\* partial-order plan whose constraints leave one order only
StrictlyOrdered(rq) ==
    \/ rq.plan_kind = "sequential"
    \/ PlanRead(rq) /\ IsTotalOrder(rq.plan)

\* the request was ended by the assertions on its arguments
RefusedAsInput(rq) ==
    /\ Ended(rq)
    /\ rq.raised = "AssertionError"
    /\ rq.read_from = {}
    /\ rq.converted = <<>>

\* remapped in the given order, checked once, and the checker's verdict
\* is the request's
CheckedDirectly(rq) ==
    /\ rq.converted = <<GivenOrder(rq.plan)>>
    /\ rq.submitted = <<GivenOrder(rq.plan)>>
    /\ rq.new_seq_plan =
           [k \in DOMAIN rq.plan.actions |-> Remapped(rq.plan.actions[k])]
    /\ rq.result = ValidationStatus(rq, GivenOrder(rq.plan))

\* C13, as stated: a strictly ordered plan submitted to the validator is
\* accepted as input, remapped occurrence by occurrence in its given order
\* and checked by the classical checker, whose verdict becomes the
\* request's verdict.
C13_StrictlyOrderedAccepted ==
    \A r \in Requests :
        StrictlyOrdered(req[r]) =>
            /\ ~RefusedAsInput(req[r])
            /\ (Ended(req[r]) /\ PlanRead(req[r]) /\ AllRemap(req[r])) =>
                  CheckedDirectly(req[r])

\* C13, amended: a strictly ordered plan is accepted as input only as a
\* partial-order plan whose constraints order all its occurrences; it then
\* has one linearization, which is remapped occurrence by occurrence in the
\* given order and checked by the classical checker, whose verdict becomes
\* the request's verdict.  A plan of the sequential kind is refused by the
\* assertion on the arguments, before anything is written, parsed or
\* remapped, and the request gives no verdict.
C13_TotalOrderAccepted ==
    \A r \in Requests :
        /\ (req[r].plan_kind = "sequential" /\ req[r].pc /= "called") =>
              /\ RefusedAsInput(req[r])
              /\ req[r].result = "none"
              /\ ~PlanRead(req[r])
        /\ (PlanRead(req[r]) /\ IsTotalOrder(req[r].plan)) =>
              /\ req[r].plan_kind = "partial_order"
              /\ ~RefusedAsInput(req[r])
              /\ AllSequentialPlans(req[r].plan) = {GivenOrder(req[r].plan)}
              /\ (Ended(req[r]) /\ AllRemap(req[r])) =>
                    CheckedDirectly(req[r])

\* a partial-order plan of two distinct, ordered occurrences was remapped
\* in that order and the checker's verdict on it returned
C13_Witness ==
    \E r \in Requests :
        /\ Ended(req[r])
        /\ PlanRead(req[r])
        /\ IsTotalOrder(req[r].plan)
        /\ Len(req[r].plan.actions) = 2
        /\ req[r].plan.actions[1] /= req[r].plan.actions[2]
        /\ AllRemap(req[r])
        /\ req[r].new_seq_plan[1].params = <<"a1", "l2">>
        /\ req[r].new_seq_plan[2].params = <<"a1", "l1">>
        /\ req[r].result = "VALID"

\* a plan of the sequential kind was refused
C13_SequentialRefused ==
    \E r \in Requests :
        req[r].plan_kind = "sequential" /\ RefusedAsInput(req[r])


-----------------------------------------------------------------------------
(* _parse_unground_propositions as a machine, on the blocks written from   *)
(* up to MaxLits literals                                                  *)

PropLiterals ==
    [name : {"p", "q"}, args : {<<>>, <<"a">>, <<"a", "b">>},
     is_negated : BOOLEAN]

LiteralWords(l) ==
    IF l.is_negated
    THEN <<LP, "not", LP, l.name>> \o l.args \o <<RP, RP>>
    ELSE <<LP, l.name>> \o l.args \o <<RP>>

\* ( and L1 ... Lk )
ConjunctionWords(ls) == <<LP, "and">> \o FlatMap(LiteralWords, ls) \o <<RP>>

\* the caller hands over a block: one literal, bare or under "and", or a
\* conjunction of none or several
PropsInit ==
    /\ \E n \in 0..MaxLits :
       \E ls \in [1..n -> PropLiterals] :
          /\ literals = ls
          /\ \/ prop_array = ConjunctionWords(ls)
             \/ n = 1 /\ prop_array = LiteralWords(ls[1])
    /\ prop_list = [status |-> "ok", val |-> <<>>]
    /\ prpc = "called"
    /\ TokIdle
    /\ ParseIdle
    /\ TypeIdle
    /\ ValIdle

\* lines 492-507
CallParseUngroundPropositions ==
    /\ prpc = "called"
    /\ prop_list' = ParseUngroundPropositions(prop_array)
    /\ prpc' = "returned"
    /\ UNCHANGED <<literals, prop_array>>
    /\ UNCHANGED <<tokVars, parseVars, typeVars, valVars>>

PropsNext == CallParseUngroundPropositions

SpecProps == PropsInit /\ [][PropsNext]_vars

-----------------------------------------------------------------------------
(* C14 *)

Keywords == {LP, RP, "and", "not"}

\* the returned list is the block's literals, one for one and in order
ReturnsTheLiterals ==
    /\ prop_list.status = "ok"
    /\ Len(prop_list.val) = Len(literals)
    /\ \A i \in DOMAIN literals :
          /\ prop_list.val[i].name = literals[i].name
          /\ prop_list.val[i].args = literals[i].args
          /\ prop_list.val[i].is_negated = literals[i].is_negated
          /\ ~prop_list.val[i].is_typed

NoKeywordReturned ==
    \A i \in DOMAIN prop_list.val :
        /\ prop_list.val[i].name \notin Keywords
        /\ \A k \in DOMAIN prop_list.val[i].args :
              prop_list.val[i].args[k] \notin Keywords

\* C14: for a block that is a single literal, a single negated literal or
\* a conjunction ( and L1 ... Lk ) of literals, each possibly wrapped in
\* ( not ... ), _parse_unground_propositions returns one literal per Li in
\* the original order, with the name, the untyped arguments and the negation
\* flag of Li; no parenthesis and no "and" or "not" becomes a literal's name
\* or argument.
C14_LiteralListRule ==
    prpc = "returned" => ReturnsTheLiterals /\ NoKeywordReturned

\* the same, for the blocks of at least one literal
C14_NonEmptyBlocks ==
    (prpc = "returned" /\ literals /= <<>>) =>
        ReturnsTheLiterals /\ NoKeywordReturned

\* the conjunction of no literal, ( and ), has come back as one literal
\* named "and"
C14_EmptyConjunction ==
    /\ prpc = "returned"
    /\ prop_array = <<LP, "and", RP>>
    /\ Len(prop_list.val) = 1
    /\ prop_list.val[1].name = "and"


-----------------------------------------------------------------------------
(* C15 *)

\* the words of the objects section of the problem file a: from :objects
\* up to the next section
ObjectsSection(a) ==
    LET from == Find(a, ":objects")
        ends == {i \in DOMAIN a :
                    /\ i > from
                    /\ i < Len(a)
                    /\ a[i] = LP
                    /\ StartsWithColon(a[i + 1])
                    /\ a[i + 1] /= ":private"}
    IN  IF from = 0 \/ ends = {} THEN <<>>
        ELSE SubSeq(a, from + 1, FirstIn(ends) - 1)

IsListWord(w) == w \notin {LP, RP, ":private"}

\* the pairs <<name, type>> of a typed list: every name goes with the type
\* after the next "-"
DeclaredIn(section) ==
    LET w == SelectSeq(section, IsListWord)
        IsName(i) == w[i] /= "-" /\ (i = 1 \/ w[i - 1] /= "-")
        Dashes(i) == {j \in DOMAIN w : j > i /\ j < Len(w) /\ w[j] = "-"}
    IN  {<<w[i], w[FirstIn(Dashes(i)) + 1]>> :
            i \in {k \in DOMAIN w : IsName(k) /\ Dashes(k) /= {}}}

\* the pairs <<name, type>> of a table of objects by type
RecordedIn(d) ==
    UNION {{<<d[i].v[k], d[i].k>> : k \in DOMAIN d[i].v} : i \in DOMAIN d}

ProblemParsed == round = 1 /\ ppc \in {"built", "domain_written"}

\* C15: after the objects section, with or without :private blocks before,
\* between or after the public declarations, the recorded objects are
\* exactly the names that stand before a "- <type>", each under that type;
\* no parenthesis is recorded as an object.
C15_ObjectsRecorded ==
    ProblemParsed =>
        /\ RecordedIn(planning_problem.objects) =
               DeclaredIn(ObjectsSection(GetFileAsArray(problemfile)))
        /\ planning_problem.object_list \cap {LP, RP} = {}

\* the same, for the problems without a :private block
C15_PublicObjectsRecorded ==
    (ProblemParsed /\ Find(GetFileAsArray(problemfile), ":private") = 0) =>
        /\ RecordedIn(planning_problem.objects) =
               DeclaredIn(ObjectsSection(GetFileAsArray(problemfile)))
        /\ planning_problem.object_list \cap {LP, RP} = {}

\* a closing parenthesis is an object of the model, of the type of the
\* public object declared after the :private block
C15_ParenthesisRecorded ==
    /\ ProblemParsed
    /\ RP \in planning_problem.object_list
    /\ <<RP, "loc">> \in RecordedIn(planning_problem.objects)

\* the first name of a :private block is in no table of the model
C15_PrivateNameDropped ==
    /\ ProblemParsed
    /\ <<"l1", "loc">> \in
           DeclaredIn(ObjectsSection(GetFileAsArray(problemfile)))
    /\ "l1" \notin planning_problem.object_list


-----------------------------------------------------------------------------
(* C16 *)

\* the domain parser stands between two top-level sections of a domain
\* with a proper header
BetweenSections ==
    /\ round = 1
    /\ ppc = "domain_words"
    /\ DomainHeaderOk(GetFileAsArray(domainfile))
    /\ planning_problem.opencounter = 0

Leftovers == {"-", "number", LP, RP}

\* the names recorded for the types, constants and predicates
RecordedNames(st) ==
    UNION {SeqToSet(st.types[i].v) : i \in DOMAIN st.types}
        \cup UNION {SeqToSet(st.constants[i].v) : i \in DOMAIN st.constants}
        \cup {st.predicates[i].name : i \in DOMAIN st.predicates}
        \cup UNION {{st.predicates[i].args[k][1] :
                        k \in DOMAIN st.predicates[i].args} :
                       i \in DOMAIN st.predicates}

\* the buffer is empty and the name/type toggle reset
C16_BufferReset ==
    BetweenSections =>
        /\ planning_problem.obj_list = <<>>
        /\ planning_problem.is_obj_list

\* no token left over from an earlier section is recorded
C16_NoLeftoverRecorded ==
    (round = 1 /\ DomainHeaderOk(GetFileAsArray(domainfile))) =>
        RecordedNames(planning_problem) \cap Leftovers = {}

\* C16: in the domain parser the shared token buffer is empty, and the
\* name/type toggle reset, whenever a new top-level section begins, for
\* every order of the sections; tokens left over from one section (the
\* "- number" of a functions section) never become part of a predicate,
\* constant, type or action recorded for a following section.
C16_SectionsStartClean ==
    /\ C16_BufferReset
    /\ C16_NoLeftoverRecorded

\* the same, for the domains without a functions section
C16_CleanWithoutFunctions ==
    Find(GetFileAsArray(domainfile), ":functions") = 0 =>
        C16_BufferReset /\ C16_NoLeftoverRecorded

\* "-" and "number" are constants of the model, of the type of the
\* constant declared after the functions
C16_LeftoverIsConstant ==
    /\ round = 1
    /\ ppc = "built"
    /\ \E i \in DOMAIN planning_problem.constants :
          {"-", "number"} \subseteq SeqToSet(planning_problem.constants[i].v)


-----------------------------------------------------------------------------
(* C17 *)

Subordinates(st, t) == IF DictHas(st.types, t) THEN SeqToSet(DictGet(st.types, t))
                       ELSE {}

\* the names the model knows as types, and the queried one
KnownNames(st) ==
    st.type_list \cup DictKeys(st.types)
        \cup UNION {Subordinates(st, t) : t \in DictKeys(st.types)}

\* the running call's selection holds the queried type and known names
SelectionBounded ==
    gpc = "while" =>
        /\ of_type \in selected_types
        /\ selected_types \subseteq KnownNames(planning_problem) \cup {of_type}
        /\ pre_size <= Cardinality(selected_types)

\* a step of the loop keeps every selected type; it goes on after a pass
\* that added a type and stops after the first pass that added none
LoopStep ==
    gpc = "while" =>
        /\ selected_types \subseteq selected_types'
        /\ Cardinality(selected_types) > pre_size =>
              gpc' = "while" /\ pre_size' = Cardinality(selected_types)
        /\ Cardinality(selected_types) = pre_size =>
              gpc' = "done" /\ selected_types' = selected_types

\* C17: get_objects_of_type terminates for every type hierarchy, cyclic
\* ones and an unknown queried type included: the selected types grow
\* monotonically, are bounded by the known names, and the loop stops at the
\* first pass that adds no type.
C17_Terminates ==
    /\ []SelectionBounded
    /\ [][LoopStep]_vars
    /\ (gpc = "while") ~> (gpc = "done")

\* the query for agent has returned where agent is a subordinate of robot
\* and robot one of agent
C17_Witness ==
    /\ gpc = "done"
    /\ of_type = "agent"
    /\ "robot" \in Subordinates(planning_problem, "agent")
    /\ "agent" \in Subordinates(planning_problem, "robot")
    /\ selected_types = {"agent", "robot"}

\* the query for a name that is no type has returned
C17_UnknownTypeReturned ==
    /\ gpc = "done"
    /\ of_type = "ghost"
    /\ selected_types = {"ghost"}
    /\ selected_objects = {}

\* the query has returned for a type that is its own direct subordinate
C17_SelfSubordinateReturned ==
    /\ gpc = "done"
    /\ of_type \in Subordinates(planning_problem, of_type)

====
